---------------------------- MODULE Spec2Model ----------------------------
(***************************************************************************)
(* Model of the Paths travel-map pipeline: projection, reference-data      *)
(* loading and filtering, path serialisation, the path humanizer, and the  *)
(* preview / export composers (src/app/create/maputils.ts and the preview  *)
(* component src/unnamed/part_001).                                        *)
(*                                                                         *)
(* JavaScript numbers are modelled in two ways:                            *)
(*  - Num: exact rationals [n, d] extended with the IEEE specials          *)
(*    (d = 0: n = 1 is Infinity, n = -1 is -Infinity, n = 0 is NaN), used  *)
(*    for the projection, the filter and the serializer;                   *)
(*  - fixed point integers (1/1000 degree, 1/1000 for ratios, pi/1000 for  *)
(*    angles) for the humanizer, whose square root and sines have no exact *)
(*    rational value.                                                      *)
(***************************************************************************)
EXTENDS Integers, Sequences, FiniteSets, TLC

VARIABLES
    geoAnchors,      \* CreatePath state: the ordered anchors (integer degrees)
    isEraseMode,     \* CreatePath state: click erases instead of placing
    hasLoaded,       \* CreatePath state: the stored path has been loaded
    pjPc,            \* projection run: "idle" | "bbox" | "projected" | "point"
    pjCaller,        \* who asked for the projection: "direct" | "export" | "preview"
    pjBBox,          \* the bbox handed to calculateProjection
    pjCanvas,        \* [w, h, margin] handed to calculateProjection
    pjParams,        \* the ProjectionParams returned
    pjPoint,         \* the last point handed to projectToSVG
    pjOut,           \* the last result of projectToSVG
    gxPc,            \* geography run: "idle" | "fetching" | "done" | "filtered" | "lined"
    exBBox,          \* export: the bbox of the journey
    exProjection,    \* export: the projection
    fxResults,       \* export: the five promises of fetchViaProxy
    fxOutcomes,      \* export: how each proxy request ended: "none" | "failed" | "ok"
    exGeoData,       \* export: geoData
    exDoc,           \* export: the document built
    ftIn,            \* filterByBBox called directly: the collection
    ftBBox,          \* filterByBBox called directly: the bbox
    ftOut,           \* filterByBBox called directly: the result
    lnIn,            \* lineToPath called directly: the coordinates
    lnOut,           \* lineToPath called directly: the path string
    pvShown,         \* preview: the component is mounted
    pvInstance,      \* preview: number of the mounted instance
    pvBBox,          \* preview: the bbox of the last render
    pvEffectPending, \* preview: the fetch effect is scheduled and has not run
    pvInv,           \* preview: the invocations of the effect, oldest first
    pvGeoData,       \* preview: geoData state
    pvIsLoadingGeo,  \* preview: isLoadingGeo state
    pvWriter,        \* preview: the invocation whose result geoData holds (0: none)
    pvDoc,           \* preview: the document of the last render
    curvatureMode,   \* CreatePath state: "calm" | "balanced" | "tension"
    pathSource,      \* live map: the coordinates of path-source (<<>>: no layer)
    drawnDeps,       \* live map: the dependencies the markers/path effect last ran with
    hzPc,            \* path run: "idle" | "exported" | "previewed"
    exFullPath,      \* export: fullPath, the d attribute of the journey path
    pvFullPath,      \* preview: fullPath of the last render
    hzRun,           \* the last run of a consumer of the journey: who ran, how many
                     \* anchors it saw, whether it went past its guard, its document
    pxHandler,       \* proxy: the GET handler serving /api/geo: "route" | "allowlist"
    pxCall,          \* proxy run: fetchNaturalEarthData is "idle" | "waiting" | "completed"
    pxReqs,          \* proxy run: the requests made to /api/geo, in the order issued
    pxData,          \* proxy run: the GeographicData the call returned
    title,           \* CreatePath state: the title, a sequence of characters
    origin,          \* CreatePath state: the origin, a sequence of characters
    destination,     \* CreatePath state: the destination, a sequence of characters
    currentPathId,   \* CreatePath state: the id of the row of this path (0: null)
    mapStyle,        \* CreatePath state: "minimal" | "subtle"
    stylePc,         \* live map: "idle" | "loading" (setStyle called, style.load
                     \* not yet fired) | "timer" (the 100 ms redraw timer is set)
    styleDraw,       \* live map: the drawPathOnMap the style effect holds: the
                     \* anchors and the curvature mode of its render
    clickSavePath,   \* the savePath the registered handleClick holds: the title,
                     \* anchors and path id of its render
    saveTimers,      \* the save timers set and not yet fired, in the order set
    saveRequests,    \* the inserts sent whose response has not come: their row ids
    svRequest,       \* the last request savePath sent to the paths table
    rowCount,        \* the number of rows inserted into the paths table
    clearedAt        \* rowCount at the last clearPath

clickVars == <<geoAnchors, isEraseMode, hasLoaded>>
pjVars == <<pjPc, pjCaller, pjBBox, pjCanvas, pjParams, pjPoint, pjOut>>
exVars == <<exBBox, exProjection, fxResults, fxOutcomes, exGeoData, exDoc>>
ftVars == <<ftIn, ftBBox, ftOut>>
lnVars == <<lnIn, lnOut>>
pvVars == <<pvShown, pvInstance, pvBBox, pvEffectPending, pvInv, pvGeoData,
            pvIsLoadingGeo, pvWriter, pvDoc>>
gxVars == <<gxPc, exVars, ftVars, lnVars, pvVars>>
hzVars == <<curvatureMode, pathSource, drawnDeps, hzPc, exFullPath, pvFullPath, hzRun>>
pxVars == <<pxHandler, pxCall, pxReqs, pxData>>
lvVars == <<title, origin, destination, currentPathId, mapStyle, stylePc, styleDraw,
            clickSavePath, saveTimers, saveRequests, svRequest, rowCount, clearedAt>>
vars == <<clickVars, pjVars, gxVars, hzVars, pxVars, lvVars>>

---------------------------------------------------------------------------
(* Bounds of the model *)

\* a bbox handed to calculateProjection directly has integer corners in
\* 0..CoordMax (degrees)
CoordMax == 2
\* at most this many anchors are placed
MaxAnchors == 3
\* a collection handed to filterByBBox directly has at most this many features
MaxFeatures == 2
\* a line handed to lineToPath directly has at most this many coordinates
MaxLine == 3
\* at most this many invocations of the preview's fetch effect
MaxInvocations == 3
\* the random streams a run of the humanizer draws from are those of
\* MaxSeed + 1 generator states
MaxSeed == 1

\* at most MaxTimers save timers are set and not yet fired
MaxTimers == 1

\* at most MaxRows rows are inserted into the paths table
MaxRows == 2

---------------------------------------------------------------------------
(* JavaScript numbers as extended rationals *)

Abs(x) == IF x < 0 THEN -x ELSE x
Sign(x) == IF x < 0 THEN -1 ELSE IF x > 0 THEN 1 ELSE 0

RECURSIVE GCD(_, _)
GCD(a, b) == IF b = 0 THEN a ELSE GCD(b, a % b)

\* the number n/d in lowest terms with d > 0; d = 0 gives Infinity, -Infinity or NaN
Norm(n, d) ==
    IF d = 0 THEN [n |-> Sign(n), d |-> 0]
    ELSE LET g == GCD(Abs(n), Abs(d))
             s == IF d < 0 THEN -1 ELSE 1
         IN  [n |-> (s * n) \div g, d |-> (s * d) \div g]

N(k) == [n |-> k, d |-> 1]
NaN == [n |-> 0, d |-> 0]
Infinity == [n |-> 1, d |-> 0]
IsNaN(a) == a.d = 0 /\ a.n = 0
IsFinite(a) == a.d # 0

Neg(a) == [n |-> -a.n, d |-> a.d]

\* a + b
Add(a, b) ==
    IF a.d = 0 /\ b.d = 0
    THEN IF a.n = b.n THEN a ELSE NaN
    ELSE Norm(a.n * b.d + b.n * a.d, a.d * b.d)

\* a - b
Sub(a, b) == Add(a, Neg(b))

\* a * b
Mul(a, b) == Norm(a.n * b.n, a.d * b.d)

\* a / b : x/0 is +-Infinity, 0/0 is NaN
Div(a, b) ==
    IF a.d * b.n = 0
    THEN [n |-> Sign(a.n * b.d) * (IF b.n < 0 THEN -1 ELSE 1), d |-> 0]
    ELSE Norm(a.n * b.d, a.d * b.n)

\* a <= b and a < b (false when either is NaN)
Le(a, b) ==
    /\ ~IsNaN(a) /\ ~IsNaN(b)
    /\ IF a.d = 0 /\ b.d = 0 THEN a.n <= b.n ELSE a.n * b.d <= b.n * a.d
Lt(a, b) ==
    /\ ~IsNaN(a) /\ ~IsNaN(b)
    /\ IF a.d = 0 /\ b.d = 0 THEN a.n < b.n ELSE a.n * b.d < b.n * a.d

\* Math.min(a, b) and Math.max(a, b) (NaN when either is NaN)
MathMax(a, b) == IF IsNaN(a) \/ IsNaN(b) THEN NaN ELSE IF Le(a, b) THEN b ELSE a
MathMin(a, b) == IF IsNaN(a) \/ IsNaN(b) THEN NaN ELSE IF Le(a, b) THEN a ELSE b

\* Math.min(...xs) and Math.max(...xs) over a non-empty sequence
RECURSIVE MinOf(_)
MinOf(xs) == IF Len(xs) = 1 THEN xs[1] ELSE MathMin(xs[1], MinOf(Tail(xs)))
RECURSIVE MaxOf(_)
MaxOf(xs) == IF Len(xs) = 1 THEN xs[1] ELSE MathMax(xs[1], MaxOf(Tail(xs)))

---------------------------------------------------------------------------
(* PROJECTION  (maputils.ts 45-88) *)

\* a projection whose y grows with the latitude
projectToSVGNorthDown(lng, lat, params) ==
    LET bbox == params.bbox
        x == Div(Sub(lng, bbox.minLng), Sub(bbox.maxLng, bbox.minLng))
        y == Div(Sub(lat, bbox.minLat), Sub(bbox.maxLat, bbox.minLat))
    IN  [x |-> Add(params.offsetX, Mul(Mul(x, params.width), params.scale)),
         y |-> Add(params.offsetY, Mul(Mul(y, params.height), params.scale))]

projectToSVG(lng, lat, params) ==
    LET bbox == params.bbox
        x == Div(Sub(lng, bbox.minLng), Sub(bbox.maxLng, bbox.minLng))
        y == Div(Sub(bbox.maxLat, lat), Sub(bbox.maxLat, bbox.minLat))
    IN  [x |-> Add(params.offsetX, Mul(Mul(x, params.width), params.scale)),
         y |-> Add(params.offsetY, Mul(Mul(y, params.height), params.scale))]

\* the scale of calculateProjection, from the two per-axis candidates
projMaxScale(scaleX, scaleY) == MathMax(scaleX, scaleY)
projScale(scaleX, scaleY) == MathMin(scaleX, scaleY)

\* the offset that centres the unused space of one axis
projOffsetNoMargin(margin, available, geo, scale) ==
    Div(Sub(available, Mul(geo, scale)), N(2))
projOffset(margin, available, geo, scale) ==
    Add(margin, Div(Sub(available, Mul(geo, scale)), N(2)))

calculateProjection(bbox, canvasWidth, canvasHeight, margin) ==
    LET availableWidth == Sub(canvasWidth, Mul(margin, N(2)))
        availableHeight == Sub(canvasHeight, Mul(margin, N(2)))
        geoWidth == Sub(bbox.maxLng, bbox.minLng)
        geoHeight == Sub(bbox.maxLat, bbox.minLat)
        scaleX == Div(availableWidth, geoWidth)
        scaleY == Div(availableHeight, geoHeight)
        scale == projScale(scaleX, scaleY)
    IN  [bbox |-> bbox,
         width |-> geoWidth,
         height |-> geoHeight,
         offsetX |-> projOffset(margin, availableWidth, geoWidth, scale),
         offsetY |-> projOffset(margin, availableHeight, geoHeight, scale),
         scale |-> scale]

---------------------------------------------------------------------------
(* JSON values of the reference data: tagged, since a coordinate array,    *)
(* a number, null and a missing property are told apart at run time.       *)

JN(k) == [t |-> "num", v |-> k]
JA(s) == [t |-> "arr", e |-> s]
JNull == [t |-> "null"]
JUndef == [t |-> "undef"]

\* coords[i] of a JSON array (0-based), undefined past its end
At(a, i) == IF i + 1 <= Len(a.e) THEN a.e[i + 1] ELSE JUndef

\* the number a value is coerced to by a comparison: null is 0, an empty array 0,
\* a one-number array that number, undefined and everything else NaN
ToNumber(j) ==
    CASE j.t = "num" -> N(j.v)
      [] j.t = "null" -> N(0)
      [] j.t = "arr" -> IF Len(j.e) = 0 THEN N(0)
                        ELSE IF Len(j.e) = 1 /\ j.e[1].t = "num" THEN N(j.e[1].v)
                        ELSE NaN
      [] OTHER -> NaN

\* JavaScript truthiness of a JSON value
Truthy(j) ==
    CASE j.t = "num" -> j.v # 0
      [] j.t \in {"arr", "obj"} -> TRUE
      [] OTHER -> FALSE

\* a coordinate pair, a line (or ring) of pairs, and geometries
Pt(x, y) == JA(<<JN(x), JN(y)>>)
Geometry(type, coordinates) == [t |-> "obj", type |-> type, coordinates |-> coordinates]
Feature(geometry) == [t |-> "obj", geometry |-> geometry]

EMPTY == [type |-> "FeatureCollection", features |-> <<>>]

---------------------------------------------------------------------------
(* BBOX FILTERING  (maputils.ts 146-181) *)

RECURSIVE coordsInBBox(_, _)
coordsInBBox(coords, bbox) ==
    IF coords.t # "arr" THEN FALSE
    ELSE IF At(coords, 0).t = "num"
    THEN /\ Le(bbox.minLng, ToNumber(At(coords, 0)))
         /\ Le(ToNumber(At(coords, 0)), bbox.maxLng)
         /\ Le(bbox.minLat, ToNumber(At(coords, 1)))
         /\ Le(ToNumber(At(coords, 1)), bbox.maxLat)
    ELSE \E i \in 1..Len(coords.e) : coordsInBBox(coords.e[i], bbox)

intersects(geometry, bbox) ==
    IF geometry.t # "obj" THEN FALSE
    ELSE IF ~Truthy(geometry.coordinates) THEN FALSE
    ELSE coordsInBBox(geometry.coordinates, bbox)

\* f?.geometry of a feature of the list
GeometryOf(f) == IF f.t = "obj" THEN f.geometry ELSE JUndef

\* the subsequence of fs whose elements satisfy Keep, in order (Array.filter)
RECURSIVE SelectSeqBy(_, _, _)
SelectSeqBy(fs, bbox, i) ==
    IF i > Len(fs) THEN <<>>
    ELSE (IF intersects(GeometryOf(fs[i]), bbox) THEN <<fs[i]>> ELSE <<>>)
         \o SelectSeqBy(fs, bbox, i + 1)

\* the padding of the filter, in degrees
filterPadding == 5

\* the bbox the filter tests against
expandedNoPad(bbox) == bbox
expanded(bbox) ==
    [minLng |-> Sub(bbox.minLng, N(filterPadding)),
     maxLng |-> Add(bbox.maxLng, N(filterPadding)),
     minLat |-> Sub(bbox.minLat, N(filterPadding)),
     maxLat |-> Add(bbox.maxLat, N(filterPadding))]

\* filterByBBox returns a collection, or throws when features is no array
filterByBBox(geojson, bbox) ==
    IF geojson.t # "obj" \/ ~Truthy(geojson.features)
    THEN [threw |-> FALSE, value |-> EMPTY]
    ELSE IF geojson.features.t # "arr"
    THEN [threw |-> TRUE, value |-> EMPTY]
    ELSE [threw |-> FALSE,
          value |-> [type |-> "FeatureCollection",
                     features |-> SelectSeqBy(geojson.features.e, expanded(bbox), 1)]]

---------------------------------------------------------------------------
(* SVG PATH GENERATION  (maputils.ts 187-231) *)
(* A path string is the sequence of its tokens: [op, x, y] for "M x,y" and *)
(* "L x,y", and Sep for the blank a join puts between two strings.         *)

Sep == [op |-> " ", x |-> N(0), y |-> N(0)]

\* x.toFixed(2): x rounded to hundredths, half away from zero; NaN and the
\* infinities print as themselves
toFixed2(x) ==
    IF x.d = 0 THEN x
    ELSE [n |-> Sign(x.n) * ((200 * Abs(x.n) + x.d) \div (2 * x.d)), d |-> 100]

\* strs.join(' ')
RECURSIVE JoinSp(_)
JoinSp(strs) ==
    IF Len(strs) = 0 THEN <<>>
    ELSE IF Len(strs) = 1 THEN strs[1]
    ELSE strs[1] \o <<Sep>> \o JoinSp(Tail(strs))

\* Math.abs(v) > limit for a coordinate component
OutOfRangeNever(j, limit) == FALSE
OutOfRange(j, limit) == Lt(N(limit), [n |-> Abs(ToNumber(j).n), d |-> ToNumber(j).d])

\* the loop of lineToPath from coordinate i on
RECURSIVE lineLoop(_, _, _, _, _)
lineLoop(coordinates, i, path, started, projection) ==
    IF i > Len(coordinates.e) THEN path
    ELSE LET coord == coordinates.e[i]
             lng == At(coord, 0)
             lat == At(coord, 1)
         IN  IF OutOfRange(lng, 180) \/ OutOfRange(lat, 90)
             THEN lineLoop(coordinates, i + 1, path, started, projection)
             ELSE LET p == projectToSVG(ToNumber(lng), ToNumber(lat), projection)
                      cmd == [op |-> IF started THEN "L" ELSE "M",
                              x |-> toFixed2(p.x), y |-> toFixed2(p.y)]
                  IN  lineLoop(coordinates, i + 1, Append(path, cmd), TRUE, projection)

lineToPath(coordinates, projection) ==
    IF coordinates.t # "arr" \/ Len(coordinates.e) = 0 THEN <<>>
    ELSE lineLoop(coordinates, 1, <<>>, FALSE, projection)

polygonToPath(rings, projection) ==
    JoinSp([i \in 1..Len(rings.e) |-> lineToPath(rings.e[i], projection)])

\* paths.filter(Boolean)
RECURSIVE NonEmpty(_)
NonEmpty(strs) ==
    IF Len(strs) = 0 THEN <<>>
    ELSE (IF Len(strs[1]) > 0 THEN <<strs[1]>> ELSE <<>>) \o NonEmpty(Tail(strs))

geoJSONToSVGPath(feature, projection) ==
    IF feature.t # "obj" \/ feature.geometry.t # "obj" THEN <<>>
    ELSE LET type == feature.geometry.type
             coordinates == feature.geometry.coordinates
             paths ==
                 CASE type = "Polygon" -> <<polygonToPath(coordinates, projection)>>
                   [] type = "MultiPolygon" ->
                        [i \in 1..Len(coordinates.e) |->
                            polygonToPath(coordinates.e[i], projection)]
                   [] type = "LineString" -> <<lineToPath(coordinates, projection)>>
                   [] type = "MultiLineString" ->
                        [i \in 1..Len(coordinates.e) |->
                            lineToPath(coordinates.e[i], projection)]
                   [] OTHER -> <<>>
         IN  JoinSp(NonEmpty(paths))

\* const [lng, lat] = coord throws a TypeError when an entry of the line is
\* not iterable (null, undefined, a number, an object)
lineToPathThrows(coordinates) ==
    /\ coordinates.t = "arr"
    /\ \E i \in 1..Len(coordinates.e) : coordinates.e[i].t # "arr"

\* rings.map throws when rings is no array
polygonToPathThrows(rings) ==
    \/ rings.t # "arr"
    \/ \E i \in 1..Len(rings.e) : lineToPathThrows(rings.e[i])

\* geoJSONToSVGPath(feature, projection) throws instead of returning
geoJSONToSVGPathThrows(feature) ==
    IF feature.t # "obj" \/ feature.geometry.t # "obj" THEN FALSE
    ELSE LET type == feature.geometry.type
             coordinates == feature.geometry.coordinates
         IN  CASE type = "Polygon" -> polygonToPathThrows(coordinates)
               [] type = "MultiPolygon" ->
                    \/ coordinates.t # "arr"
                    \/ \E i \in 1..Len(coordinates.e) :
                          polygonToPathThrows(coordinates.e[i])
               [] type = "LineString" -> lineToPathThrows(coordinates)
               [] type = "MultiLineString" ->
                    \/ coordinates.t # "arr"
                    \/ \E i \in 1..Len(coordinates.e) :
                          lineToPathThrows(coordinates.e[i])
               [] OTHER -> FALSE

---------------------------------------------------------------------------
(* Reference data of the model: the five Natural Earth datasets the proxy  *)
(* serves, and the journeys a stored path loads.                           *)

Line(pts) == JA(pts)

coastlineData ==
    <<Feature(Geometry("LineString", Line(<<Pt(2, 3), Pt(5, 5), Pt(8, 7)>>))),
      Feature(Geometry("LineString", Line(<<Pt(30, 5), Pt(35, 6)>>))),
      Feature(Geometry("LineString", Line(<<Pt(60, 60), Pt(70, 70)>>)))>>

riversData ==
    <<Feature(Geometry("MultiLineString",
          JA(<<Line(<<Pt(1, 1), Pt(3, 2)>>), Line(<<Pt(50, 5), Pt(55, 5)>>)>>))),
      Feature(Geometry("LineString", Line(<<Pt(16, 16), Pt(18, 18)>>))),
      Feature(Geometry("LineString", Line(<<Pt(9, 9), JNull, Pt(8, 8)>>)))>>

lakesData ==
    <<Feature(Geometry("Polygon",
          JA(<<Line(<<Pt(4, 4), Pt(6, 4), Pt(6, 6), Pt(4, 4)>>)>>))),
      Feature(JNull),
      Feature(Geometry("Polygon",
          JA(<<Line(<<Pt(17, 2), Pt(19, 2), Pt(19, 4), Pt(17, 2)>>)>>)))>>

landData ==
    <<Feature(Geometry("MultiPolygon",
          JA(<<JA(<<Line(<<Pt(-20, -20), Pt(60, -20), Pt(60, 30), Pt(-20, 30),
                           Pt(-20, -20)>>)>>)>>))),
      Feature(Geometry("Polygon",
          JA(<<Line(<<Pt(0, 0), Pt(12, 0), Pt(12, 12), Pt(0, 0)>>),
               Line(<<Pt(3, 3), Pt(4, 3), Pt(4, 4), Pt(3, 3)>>)>>)))>>

bordersData ==
    <<Feature(Geometry("LineString", Line(<<Pt(2, 2), Pt(5, 95), Pt(7, 7)>>))),
      Feature(Geometry("GeometryCollection", JUndef)),
      JNull>>

\* datasets[i] of fetchNaturalEarthData, in its order
Dataset(i) ==
    CASE i = 1 -> coastlineData
      [] i = 2 -> riversData
      [] i = 3 -> lakesData
      [] i = 4 -> landData
      [] i = 5 -> bordersData

Layers == 1..5

Anchor(x, y) == [lng |-> x, lat |-> y]

\* a row of the paths table as loadPath reads it
Stored(points, mode) ==
    [id |-> 100, title |-> <<>>, origin |-> <<>>, destination |-> <<>>,
     points |-> points, curvature_mode |-> mode]

\* a row with the texts the user entered for it
Entitled(row, t, o, dst) == [row EXCEPT !.title = t, !.origin = o, !.destination = dst]

\* the stored paths loadPath may find: the last two have anchors that share a
\* latitude and a longitude; the first is entitled R&D, from a to b, the
\* second <b>, from a"
LoadedJourneys ==
    {Entitled(Stored(<<Anchor(0, 0), Anchor(10, 10)>>, "calm"),
              <<"R", "&", "D">>, <<"a">>, <<"b">>),
     Entitled(Stored(<<Anchor(0, 0), Anchor(20, 10), Anchor(40, 0)>>, "tension"),
              <<"<", "b", ">">>, <<"a", "\"">>, <<>>),
     Stored(<<Anchor(100, 50), Anchor(110, 60)>>, ""),
     Stored(<<Anchor(0, 5), Anchor(10, 5)>>, "balanced"),
     Stored(<<Anchor(5, 0), Anchor(5, 10)>>, "balanced")}

---------------------------------------------------------------------------
(* DATA FETCHING  (maputils.ts 94-140) *)

\* what one proxy request comes to
Outcomes == {"neterr", "notok", "badjson", "nofeatures", "badfeatures", "ok"}

\* the parsed body of an OK response
Body(i, outcome) ==
    CASE outcome = "ok" -> [t |-> "obj", features |-> JA(Dataset(i))]
      [] outcome = "nofeatures" -> [t |-> "obj", features |-> JUndef]
      [] outcome = "badfeatures" -> [t |-> "obj", features |-> JN(1)]

Pending == [status |-> "pending", value |-> EMPTY]
Rejected == [status |-> "rejected", value |-> EMPTY]
Fulfilled(v) == [status |-> "fulfilled", value |-> v]

\* the promise fetchViaProxy(datasets[i], bbox) settles to: fetch rejects on a
\* network error, a non-OK status throws, response.json() throws on a body that
\* does not parse, and filterByBBox may throw
fetchViaProxy(i, outcome, bbox) ==
    IF outcome \in {"neterr", "notok", "badjson"} THEN Rejected
    ELSE LET r == filterByBBox(Body(i, outcome), bbox)
         IN  IF r.threw THEN Rejected ELSE Fulfilled(r.value)

\* get(i) of fetchNaturalEarthData (0-based)
getShifted(results, i) ==
    IF results[((i + 1) % 5) + 1].status = "fulfilled"
    THEN results[((i + 1) % 5) + 1].value ELSE EMPTY
get(results, i) ==
    IF results[i + 1].status = "fulfilled" THEN results[i + 1].value ELSE EMPTY

\* the GeographicData built from the settled results
geographicData(results) ==
    [t |-> "obj",
     coastlines |-> get(results, 0),
     rivers |-> get(results, 1),
     lakes |-> get(results, 2),
     land |-> get(results, 3),
     borders |-> get(results, 4)]

\* fetchNaturalEarthData(bbox) as one step, for given per-layer outcomes
fetchNaturalEarthData(outcomes, bbox) ==
    geographicData([i \in Layers |-> fetchViaProxy(i, outcomes[i], bbox)])


---------------------------------------------------------------------------
(* The page layout of the export and of the preview *)

printWidthMM == 420
printHeightMM == 594
margin == 40
titleAreaHeight == 80
footerHeight == 60

mapAreaWidth == printWidthMM - margin * 2
mapAreaHeight == printHeightMM - margin * 2 - titleAreaHeight - footerHeight

\* the bbox of the anchors padded by 10% of the span on each axis (export)
exportBBox(anchors) ==
    LET lngs == [i \in 1..Len(anchors) |-> N(anchors[i].lng)]
        lats == [i \in 1..Len(anchors) |-> N(anchors[i].lat)]
        minLng == MinOf(lngs)
        maxLng == MaxOf(lngs)
        minLat == MinOf(lats)
        maxLat == MaxOf(lats)
        lngPadding == Mul(Sub(maxLng, minLng), Norm(1, 10))
        latPadding == Mul(Sub(maxLat, minLat), Norm(1, 10))
    IN  [minLng |-> Sub(minLng, lngPadding),
         maxLng |-> Add(maxLng, lngPadding),
         minLat |-> Sub(minLat, latPadding),
         maxLat |-> Add(maxLat, latPadding)]

\* the same computation in the preview component
previewBBox(anchors) ==
    LET lngs == [i \in 1..Len(anchors) |-> N(anchors[i].lng)]
        lats == [i \in 1..Len(anchors) |-> N(anchors[i].lat)]
        minLng == MinOf(lngs)
        maxLng == MaxOf(lngs)
        minLat == MinOf(lats)
        maxLat == MaxOf(lats)
        lngPadding == Mul(Sub(maxLng, minLng), Norm(1, 10))
        latPadding == Mul(Sub(maxLat, minLat), Norm(1, 10))
    IN  [minLng |-> Sub(minLng, lngPadding),
         maxLng |-> Add(maxLng, lngPadding),
         minLat |-> Sub(minLat, latPadding),
         maxLat |-> Add(maxLat, latPadding)]

---------------------------------------------------------------------------
(* DOCUMENT COMPOSITION: the reference layers and the fallback grid of the *)
(* export (maputils.ts 757-889) and of the preview (part_001 211-408).     *)
(* A document is the sequence of its draw elements [kind, items], back to  *)
(* front; the items of a layer group are its path strings, those of the    *)
(* grid its lines.                                                         *)

\* geoToSVG of the export and of the preview: the projected point moved into
\* the map area of the page
geoToSVG(lng, lat, projection) ==
    LET projected == projectToSVG(lng, lat, projection)
    IN  [x |-> Add(N(margin), projected.x),
         y |-> Add(N(margin + titleAreaHeight), projected.y)]

\* geoData?.<layer>?.features?.length > 0
HasFeatures(geoData, layer) ==
    geoData.t = "obj" /\ Len(geoData[layer].features) > 0

\* the paths of the features that serialize, in order: a feature whose
\* serialization throws, or gives the empty string, has no path
RECURSIVE pathsOf(_, _, _)
pathsOf(features, projection, i) ==
    IF i > Len(features) THEN <<>>
    ELSE (IF geoJSONToSVGPathThrows(features[i]) THEN <<>>
          ELSE NonEmpty(<<geoJSONToSVGPath(features[i], projection)>>))
         \o pathsOf(features, projection, i + 1)

\* one layer group of the export: present when the layer has features; each
\* feature is serialized inside its own try / catch
exportLayerGroup(kind, geoData, layer, projection) ==
    IF HasFeatures(geoData, layer)
    THEN <<[kind |-> kind, items |-> pathsOf(geoData[layer].features, projection, 1)]>>
    ELSE <<>>

\* one layer group of the preview: present when the layer has features; the
\* features are serialized by features.map, with nothing to catch a throw
previewLayerGroup(kind, geoData, layer, projection) ==
    IF HasFeatures(geoData, layer)
    THEN <<[kind |-> kind, items |-> pathsOf(geoData[layer].features, projection, 1)]>>
    ELSE <<>>

\* a feature of a layer the preview draws throws while it is serialized
previewLayerThrows(geoData, layer) ==
    /\ HasFeatures(geoData, layer)
    /\ \E i \in 1..Len(geoData[layer].features) :
          geoJSONToSVGPathThrows(geoData[layer].features[i])

\* the ten meridians and eight parallels of the fallback grid
gridLines(bbox, projection) ==
    [i \in 1..10 |->
        LET lng == Add(bbox.minLng,
                       Div(Mul(Sub(bbox.maxLng, bbox.minLng), N(i - 1)), N(9)))
        IN  [from |-> geoToSVG(lng, bbox.maxLat, projection),
             to |-> geoToSVG(lng, bbox.minLat, projection)]]
    \o
    [i \in 1..8 |->
        LET lat == Add(bbox.minLat,
                       Div(Mul(Sub(bbox.maxLat, bbox.minLat), N(i - 1)), N(7)))
        IN  [from |-> geoToSVG(bbox.minLng, lat, projection),
             to |-> geoToSVG(bbox.maxLng, lat, projection)]]

\* the paper the geography is drawn on: background, texture and vignette
Background ==
    <<[kind |-> "paper", items |-> <<>>], [kind |-> "texture", items |-> <<>>],
      [kind |-> "vignette", items |-> <<>>]>>

\* isEndpoint of the anchor points (index from 0)
isEndpointFirstOnly(index, length) == index = 0
isEndpoint(index, length) == index = 0 \/ index = length - 1

\* the circle of one anchor: filled for an endpoint, stroked for a waypoint
circle(at, endpoint) ==
    IF endpoint
    THEN [cx |-> at.x, cy |-> at.y, r |-> "1.5", fill |-> "#3f3b36", stroke |-> ""]
    ELSE [cx |-> at.x, cy |-> at.y, r |-> "1.2", fill |-> "none", stroke |-> "#3f3b36"]

\* the anchor points of the export (geoAnchors.forEach)
exportAnchorPoints(anchors, projection) ==
    [i \in 1..Len(anchors) |->
        circle(geoToSVG(N(anchors[i].lng), N(anchors[i].lat), projection),
               isEndpoint(i - 1, Len(anchors)))]

\* the anchor points of the preview (anchorPositions.map)
previewAnchorPoints(anchors, projection) ==
    LET anchorPositions ==
            [i \in 1..Len(anchors) |->
                geoToSVG(N(anchors[i].lng), N(anchors[i].lat), projection)]
    IN  [i \in 1..Len(anchors) |->
            circle(anchorPositions[i], isEndpoint(i - 1, Len(anchors)))]

\* String.prototype.toUpperCase on a sequence of characters, for the letters
\* the texts of the model are written with
Upper == [a |-> "A", b |-> "B"]
toUpperCase(str) ==
    [i \in 1..Len(str) |-> IF str[i] \in DOMAIN Upper THEN Upper[str[i]] ELSE str[i]]

\* the text of the title: title || "Untitled Journey"
displayTitle(t) ==
    IF t = <<>>
    THEN <<"U", "n", "t", "i", "t", "l", "e", "d", " ", "J", "o", "u", "r", "n", "e", "y">>
    ELSE t

\* the text of the line under the title (the em dash is written "--")
routeLine(o, dst) ==
    IF o # <<>> /\ dst # <<>> THEN toUpperCase(o) \o <<" ", "--", " ">> \o toUpperCase(dst)
    ELSE IF o # <<>> THEN toUpperCase(o)
    ELSE <<"O", "R", "I", "G", "I", "N", " ", "--", " ",
           "D", "E", "S", "T", "I", "N", "A", "T", "I", "O", "N">>

\* the elements the export draws over the geography: journey path (its d
\* attribute is exFullPath), anchor points, typography and frame; the items of
\* a text element are the characters the template puts between its tags
exportForegroundFrameFirst(anchors, projection, t, o, dst) ==
    <<[kind |-> "frame", items |-> <<>>],
      [kind |-> "path", items |-> <<>>],
      [kind |-> "markers", items |-> exportAnchorPoints(anchors, projection)],
      [kind |-> "title", items |-> displayTitle(t)],
      [kind |-> "route", items |-> routeLine(o, dst)],
      [kind |-> "year", items |-> <<>>], [kind |-> "footer", items |-> <<>>]>>
exportForeground(anchors, projection, t, o, dst) ==
    <<[kind |-> "path", items |-> <<>>],
      [kind |-> "markers", items |-> exportAnchorPoints(anchors, projection)],
      [kind |-> "title", items |-> displayTitle(t)],
      [kind |-> "route", items |-> routeLine(o, dst)],
      [kind |-> "year", items |-> <<>>], [kind |-> "footer", items |-> <<>>],
      [kind |-> "frame", items |-> <<>>]>>

\* the same elements of the preview (its path's d attribute is pvFullPath)
previewForeground(anchors, projection) ==
    <<[kind |-> "path", items |-> <<>>],
      [kind |-> "markers", items |-> previewAnchorPoints(anchors, projection)],
      [kind |-> "title", items |-> <<>>], [kind |-> "route", items |-> <<>>],
      [kind |-> "year", items |-> <<>>], [kind |-> "footer", items |-> <<>>],
      [kind |-> "frame", items |-> <<>>]>>

exportHasAnyGeoNoBorders(geoData) ==
    \/ HasFeatures(geoData, "coastlines")
    \/ HasFeatures(geoData, "land")
    \/ HasFeatures(geoData, "rivers")
    \/ HasFeatures(geoData, "lakes")
exportHasAnyGeo(geoData) ==
    \/ HasFeatures(geoData, "coastlines")
    \/ HasFeatures(geoData, "land")
    \/ HasFeatures(geoData, "rivers")
    \/ HasFeatures(geoData, "lakes")
    \/ HasFeatures(geoData, "borders")

\* the document exportAsPNG builds once the reference data is there
exportDocument(geoData, bbox, projection, anchors, t, o, dst) ==
    Background
    \o exportLayerGroup("land", geoData, "land", projection)
    \o exportLayerGroup("lakes", geoData, "lakes", projection)
    \o exportLayerGroup("rivers", geoData, "rivers", projection)
    \o exportLayerGroup("coastlines", geoData, "coastlines", projection)
    \o exportLayerGroup("borders", geoData, "borders", projection)
    \o (IF ~exportHasAnyGeo(geoData)
        THEN <<[kind |-> "grid", items |-> gridLines(bbox, projection)]>>
        ELSE <<>>)
    \o exportForeground(anchors, projection, t, o, dst)

previewHasAnyGeo(geoData) ==
    \/ HasFeatures(geoData, "coastlines")
    \/ HasFeatures(geoData, "land")
    \/ HasFeatures(geoData, "rivers")
    \/ HasFeatures(geoData, "lakes")
    \/ HasFeatures(geoData, "borders")

\* the document one render of ArtworkPreview draws
previewDocument(geoData, isLoadingGeo, bbox, projection, anchors) ==
    Background
    \o (IF ~isLoadingGeo THEN previewLayerGroup("land", geoData, "land", projection)
        ELSE <<>>)
    \o (IF ~isLoadingGeo THEN previewLayerGroup("lakes", geoData, "lakes", projection)
        ELSE <<>>)
    \o (IF ~isLoadingGeo THEN previewLayerGroup("rivers", geoData, "rivers", projection)
        ELSE <<>>)
    \o (IF ~isLoadingGeo
        THEN previewLayerGroup("coastlines", geoData, "coastlines", projection)
        ELSE <<>>)
    \o (IF ~isLoadingGeo
        THEN previewLayerGroup("borders", geoData, "borders", projection) ELSE <<>>)
    \o (IF ~isLoadingGeo /\ ~previewHasAnyGeo(geoData)
        THEN <<[kind |-> "grid", items |-> gridLines(bbox, projection)]>>
        ELSE <<>>)
    \o previewForeground(anchors, projection)

\* what is on screen when the render of the preview throws: no handler and no
\* error boundary of the component catches it, and nothing of it is drawn
RenderError == <<[kind |-> "error", items |-> <<>>]>>

\* one render of ArtworkPreview: the document, or the error of a feature
\* whose serialization throws
previewRender(geoData, isLoadingGeo, bbox, projection, anchors) ==
    IF ~isLoadingGeo /\ \E layer \in {"land", "lakes", "rivers", "coastlines", "borders"} :
                            previewLayerThrows(geoData, layer)
    THEN RenderError
    ELSE previewDocument(geoData, isLoadingGeo, bbox, projection, anchors)

\* the projection of the export and of the preview for a bbox
pageProjection(bbox) ==
    calculateProjection(bbox, N(mapAreaWidth), N(mapAreaHeight), N(0))

---------------------------------------------------------------------------
(* PATH HUMANIZER  (maputils.ts 438-519, 894-981; part_001 107-193)        *)
(* Fixed point: coordinates and lengths in thousandths of a degree, ratios *)
(* (the perpendicular, the random draws, the curvature) in thousandths,    *)
(* angles in thousandths of pi.  A point is [lng, lat, nan]: nan is set    *)
(* when its coordinates are NaN (both are, or neither).                    *)

\* an array a loop or a map has filled: its elements are computed once
Array(f) == SubSeq(f, 1, Len(f))

\* a / b rounded to the nearest integer, for b > 0
RoundDiv(a, b) ==
    IF a >= 0 THEN (a + b \div 2) \div b ELSE -((b \div 2 - a) \div b)

\* Math.sqrt: the integer part of the square root, by Newton's iteration
RECURSIVE SqrtIter(_, _)
SqrtIter(n, x) ==
    LET y == (x + n \div x) \div 2
    IN  IF y >= x THEN x ELSE SqrtIter(n, y)

MathSqrt(n) == IF n = 0 THEN 0 ELSE SqrtIter(n, n)

\* Math.sin of an angle a >= 0 given in thousandths of pi, in thousandths:
\* Bhaskara's approximation sin(pi x) = 16 x (1 - x) / (5 - 4 x (1 - x)) on a
\* half period, exact at 0, pi/6, pi/2, 5 pi/6 and pi
MathSin(a) ==
    LET u == a % 2000
        h == IF u <= 1000 THEN u ELSE u - 1000
        q == h * (1000 - h)
        v == RoundDiv(4000 * q, 1250000 - q)
    IN  IF u <= 1000 THEN v ELSE -v

\* Math.random: the n-th number, in thousandths, of the stream the generator
\* yields from state seed (a Lehmer generator modulo 997; state 0 yields only
\* zeros, the least number Math.random returns)
RECURSIVE MathRandom(_, _)
MathRandom(seed, n) ==
    IF n = 0 THEN seed ELSE (7 * MathRandom(seed, n - 1)) % 997

\* the curvature presets, in thousandths
CURVATURE(mode) ==
    CASE mode = "calm" -> 80
      [] mode = "balanced" -> 110
      [] mode = "tension" -> 140

\* the presets of the preview component, in thousandths
previewCURVATURESharp(mode) ==
    CASE mode = "calm" -> 80
      [] mode = "balanced" -> 110
      [] mode = "tension" -> 150

previewCURVATURE(mode) ==
    CASE mode = "calm" -> 80
      [] mode = "balanced" -> 110
      [] mode = "tension" -> 140

CurvatureModes == {"calm", "balanced", "tension"}

HPoint(lng, lat) == [lng |-> lng, lat |-> lat, nan |-> FALSE]
HNaN == [lng |-> 0, lat |-> 0, nan |-> TRUE]

\* generateHumanizedPath up to p1: the chord, the unit perpendicular, the three
\* random quantities and the control point of the segment from p0 to p2, with
\* the random numbers drawn as numbers base + 1 .. base + 3 of the stream of
\* seed (for two anchors that differ)
controlPoint(p0, p2, curvature, seed, base) ==
    LET dLng == 1000 * (p2.lng - p0.lng)
        dLat == 1000 * (p2.lat - p0.lat)
        distance == MathSqrt(dLng * dLng + dLat * dLat)
        perpLng == RoundDiv((-dLat) * 1000, distance)
        perpLat == RoundDiv(dLng * 1000, distance)
        midLng == 500 * (p0.lng + p2.lng)
        midLat == 500 * (p0.lat + p2.lat)
        curveVariation == 800 + RoundDiv(MathRandom(seed, base + 1) * 400, 1000)
        offset == RoundDiv(RoundDiv(distance * curvature, 1000) * curveVariation, 1000)
        asymmetry == -50 + RoundDiv(MathRandom(seed, base + 2) * 100, 1000)
        randomPerpOffset ==
            RoundDiv(RoundDiv((MathRandom(seed, base + 3) - 500) * distance, 1000) * 30,
                     1000)
    IN  [distance |-> distance, perpLng |-> perpLng, perpLat |-> perpLat,
         curveVariation |-> curveVariation, offset |-> offset,
         asymmetry |-> asymmetry, randomPerpOffset |-> randomPerpOffset,
         lng |-> midLng + RoundDiv(perpLng * (offset + randomPerpOffset), 1000)
                 + RoundDiv(dLng * asymmetry, 1000),
         lat |-> midLat + RoundDiv(perpLat * (offset + randomPerpOffset), 1000)
                 + RoundDiv(dLat * asymmetry, 1000)]

\* generateHumanizedPath up to humanizedPoints: the 101 samples of the Bezier curve
\* with the noise added, the random numbers of the noise being numbers
\* base + 4 .. base + 9 of the stream of seed
liveHumanizedPoints(p0, p2, curvature, seed, base) ==
    LET dLng == 1000 * (p2.lng - p0.lng)
        dLat == 1000 * (p2.lat - p0.lat)
        distance == MathSqrt(dLng * dLng + dLat * dLat)
    IN  IF distance = 0 THEN [i \in 1..101 |-> HNaN]
        ELSE
        LET p1 == controlPoint(p0, p2, curvature, seed, base)
            perpLng == p1.perpLng
            perpLat == p1.perpLat
            \* t = i / 100 and mt = 1 - t, in hundredths
            points == Array([j \in 1..101 |->
                LET t == j - 1
                    mt == 100 - t
                IN  [lng |-> RoundDiv(mt * mt * 1000 * p0.lng + 2 * mt * t * p1.lng
                                      + t * t * 1000 * p2.lng, 10000),
                     lat |-> RoundDiv(mt * mt * 1000 * p0.lat + 2 * mt * t * p1.lat
                                      + t * t * 1000 * p2.lat, 10000)]])
            baseAmplitude == RoundDiv(distance * 8, 1000)
            freq1 == 3000 + MathRandom(seed, base + 4) * 2
            freq2 == 8000 + MathRandom(seed, base + 5) * 4
            freq3 == 15000 + MathRandom(seed, base + 6) * 5
            phase1 == MathRandom(seed, base + 7) * 2
            phase2 == MathRandom(seed, base + 8) * 2
            phase3 == MathRandom(seed, base + 9) * 2
        \* t = index / points.length: t * freq is index * freq / 101
        IN  Array([j \in 1..101 |->
                LET index == j - 1
                    wave1 == RoundDiv(MathSin(RoundDiv(index * freq1, 101) + phase1)
                                      * baseAmplitude, 1000)
                    wave2 == RoundDiv(MathSin(RoundDiv(index * freq2, 101) + phase2)
                                      * baseAmplitude, 2000)
                    wave3 == RoundDiv(MathSin(RoundDiv(index * freq3, 101) + phase3)
                                      * baseAmplitude, 4000)
                    totalNoise == wave1 + wave2 + wave3
                IN  HPoint(points[j].lng + RoundDiv(perpLng * totalNoise, 1000),
                           points[j].lat + RoundDiv(perpLat * totalNoise, 1000))])

\* a smoothing whose window is the three points around
liveSmoothedNarrow(noisy) ==
    Array([j \in 1..Len(noisy) |->
        IF j - 1 < 2 \/ j - 1 >= Len(noisy) - 2
        THEN noisy[j]
        ELSE IF \E w \in -1..1 : noisy[j + w].nan THEN HNaN
        ELSE HPoint(RoundDiv(noisy[j - 1].lng + noisy[j].lng + noisy[j + 1].lng, 3),
                    RoundDiv(noisy[j - 1].lat + noisy[j].lat + noisy[j + 1].lat, 3))])

\* the smoothing loop of generateHumanizedPath: the first two and the last two
\* points as they are, every other one the mean of the five around it
liveSmoothed(noisy) ==
    LET windowSize == 2
    IN  Array([j \in 1..Len(noisy) |->
            LET i == j - 1
            IN  IF i < windowSize \/ i >= Len(noisy) - windowSize
                THEN noisy[j]
                ELSE IF \E w \in -windowSize..windowSize : noisy[j + w].nan THEN HNaN
                ELSE HPoint(
                       RoundDiv(noisy[j - 2].lng + noisy[j - 1].lng + noisy[j].lng
                                + noisy[j + 1].lng + noisy[j + 2].lng, windowSize * 2 + 1),
                       RoundDiv(noisy[j - 2].lat + noisy[j - 1].lat + noisy[j].lat
                                + noisy[j + 1].lat + noisy[j + 2].lat, windowSize * 2 + 1))])

\* generateHumanizedPath of the live overlay: the 101 points of the segment
\* from p0 to p2 (anchors in degrees), with the random numbers drawn as numbers
\* base + 1 .. base + 9 of the stream of seed
generateHumanizedPath(p0, p2, curvature, seed, base) ==
    liveSmoothed(liveHumanizedPoints(p0, p2, curvature, seed, base))

\* path data that starts with a line instead of a move
exportPathDataLineOnly(smoothed, projection) ==
    LET svgPoints == [i \in 1..Len(smoothed) |->
            IF smoothed[i].nan THEN geoToSVG(NaN, NaN, projection)
            ELSE geoToSVG(Norm(smoothed[i].lng, 1000), Norm(smoothed[i].lat, 1000),
                          projection)]
    IN  [i \in 1..Len(svgPoints) |->
            [op |-> "L", x |-> svgPoints[i].x, y |-> svgPoints[i].y]]

\* the end of generatePathSegment of exportAsPNG: the smoothed points through geoToSVG, then the
\* path data "M x,y L x,y ..." as its tokens
exportPathData(smoothed, projection) ==
    LET svgPoints == [i \in 1..Len(smoothed) |->
            IF smoothed[i].nan THEN geoToSVG(NaN, NaN, projection)
            ELSE geoToSVG(Norm(smoothed[i].lng, 1000), Norm(smoothed[i].lat, 1000),
                          projection)]
    IN  [i \in 1..Len(svgPoints) |->
            [op |-> IF i = 1 THEN "M" ELSE "L", x |-> svgPoints[i].x, y |-> svgPoints[i].y]]

\* generatePathSegment of exportAsPNG: the path data of the segment from p0 to p2
exportGeneratePathSegment(p0, p2, k, projection, seed, base) ==
    LET dLng == 1000 * (p2.lng - p0.lng)
        dLat == 1000 * (p2.lat - p0.lat)
        distance == MathSqrt(dLng * dLng + dLat * dLat)
    IN  IF distance = 0 THEN exportPathData([i \in 1..101 |-> HNaN], projection)
        ELSE
        LET perpLng == RoundDiv((-dLat) * 1000, distance)
            perpLat == RoundDiv(dLng * 1000, distance)
            midLng == 500 * (p0.lng + p2.lng)
            midLat == 500 * (p0.lat + p2.lat)
            curveVariation == 800 + RoundDiv(MathRandom(seed, base + 1) * 400, 1000)
            offset == RoundDiv(RoundDiv(distance * k, 1000) * curveVariation, 1000)
            asymmetry == -50 + RoundDiv(MathRandom(seed, base + 2) * 100, 1000)
            randomPerpOffset ==
                RoundDiv(RoundDiv((MathRandom(seed, base + 3) - 500) * distance, 1000) * 30,
                         1000)
            p1 == [lng |-> midLng + RoundDiv(perpLng * (offset + randomPerpOffset), 1000)
                            + RoundDiv(dLng * asymmetry, 1000),
                   lat |-> midLat + RoundDiv(perpLat * (offset + randomPerpOffset), 1000)
                            + RoundDiv(dLat * asymmetry, 1000)]
            steps == 100
            \* t = i / steps and mt = 1 - t, in hundredths
            points == Array([j \in 1..steps + 1 |->
                LET t == j - 1
                    mt == 100 - t
                IN  [lng |-> RoundDiv(mt * mt * 1000 * p0.lng + 2 * mt * t * p1.lng
                                      + t * t * 1000 * p2.lng, 10000),
                     lat |-> RoundDiv(mt * mt * 1000 * p0.lat + 2 * mt * t * p1.lat
                                      + t * t * 1000 * p2.lat, 10000)]])
            baseAmplitude == RoundDiv(distance * 8, 1000)
            freq1 == 3000 + MathRandom(seed, base + 4) * 2
            freq2 == 8000 + MathRandom(seed, base + 5) * 4
            freq3 == 15000 + MathRandom(seed, base + 6) * 5
            phase1 == MathRandom(seed, base + 7) * 2
            phase2 == MathRandom(seed, base + 8) * 2
            phase3 == MathRandom(seed, base + 9) * 2
            \* t = index / points.length: t * freq is index * freq / 101
            humanizedPoints == Array([j \in 1..101 |->
                LET index == j - 1
                    wave1 == RoundDiv(MathSin(RoundDiv(index * freq1, 101) + phase1)
                                      * baseAmplitude, 1000)
                    wave2 == RoundDiv(MathSin(RoundDiv(index * freq2, 101) + phase2)
                                      * baseAmplitude, 2000)
                    wave3 == RoundDiv(MathSin(RoundDiv(index * freq3, 101) + phase3)
                                      * baseAmplitude, 4000)
                    totalNoise == wave1 + wave2 + wave3
                IN  [lng |-> points[j].lng + RoundDiv(perpLng * totalNoise, 1000),
                     lat |-> points[j].lat + RoundDiv(perpLat * totalNoise, 1000)]])
            windowSize == 2
            smoothed == Array([j \in 1..101 |->
                LET i == j - 1
                IN  IF i < windowSize \/ i >= 101 - windowSize
                    THEN HPoint(humanizedPoints[j].lng, humanizedPoints[j].lat)
                    ELSE HPoint(
                           RoundDiv(humanizedPoints[j - 2].lng + humanizedPoints[j - 1].lng
                                    + humanizedPoints[j].lng + humanizedPoints[j + 1].lng
                                    + humanizedPoints[j + 2].lng, windowSize * 2 + 1),
                           RoundDiv(humanizedPoints[j - 2].lat + humanizedPoints[j - 1].lat
                                    + humanizedPoints[j].lat + humanizedPoints[j + 1].lat
                                    + humanizedPoints[j + 2].lat, windowSize * 2 + 1))])
        IN  exportPathData(smoothed, projection)

\* the end of generatePathSegment of ArtworkPreview: the smoothed points through geoToSVG, then the
\* path data "M x,y L x,y ..." as its tokens
previewPathData(smoothed, projection) ==
    LET svgPoints == [i \in 1..Len(smoothed) |->
            IF smoothed[i].nan THEN geoToSVG(NaN, NaN, projection)
            ELSE geoToSVG(Norm(smoothed[i].lng, 1000), Norm(smoothed[i].lat, 1000),
                          projection)]
    IN  [i \in 1..Len(svgPoints) |->
            [op |-> IF i = 1 THEN "M" ELSE "L", x |-> svgPoints[i].x, y |-> svgPoints[i].y]]

\* generatePathSegment of ArtworkPreview up to p1: the chord, the unit perpendicular, the three
\* random quantities and the control point of the segment from p0 to p2, with
\* the random numbers drawn as numbers base + 1 .. base + 3 of the stream of
\* seed (for two anchors that differ)
previewControlPoint(p0, p2, k, seed, base) ==
    LET dLng == 1000 * (p2.lng - p0.lng)
        dLat == 1000 * (p2.lat - p0.lat)
        distance == MathSqrt(dLng * dLng + dLat * dLat)
        perpLng == RoundDiv((-dLat) * 1000, distance)
        perpLat == RoundDiv(dLng * 1000, distance)
        midLng == 500 * (p0.lng + p2.lng)
        midLat == 500 * (p0.lat + p2.lat)
        curveVariation == 800 + RoundDiv(MathRandom(seed, base + 1) * 400, 1000)
        offset == RoundDiv(RoundDiv(distance * k, 1000) * curveVariation, 1000)
        asymmetry == -50 + RoundDiv(MathRandom(seed, base + 2) * 100, 1000)
        randomPerpOffset ==
            RoundDiv(RoundDiv((MathRandom(seed, base + 3) - 500) * distance, 1000) * 30,
                     1000)
    IN  [distance |-> distance, perpLng |-> perpLng, perpLat |-> perpLat,
         curveVariation |-> curveVariation, offset |-> offset,
         asymmetry |-> asymmetry, randomPerpOffset |-> randomPerpOffset,
         lng |-> midLng + RoundDiv(perpLng * (offset + randomPerpOffset), 1000)
                 + RoundDiv(dLng * asymmetry, 1000),
         lat |-> midLat + RoundDiv(perpLat * (offset + randomPerpOffset), 1000)
                 + RoundDiv(dLat * asymmetry, 1000)]

\* generatePathSegment of ArtworkPreview up to humanizedPoints: the 101 samples of the Bezier curve
\* with the noise added, the random numbers of the noise being numbers
\* base + 4 .. base + 9 of the stream of seed
previewHumanizedPoints(p0, p2, k, seed, base) ==
    LET dLng == 1000 * (p2.lng - p0.lng)
        dLat == 1000 * (p2.lat - p0.lat)
        distance == MathSqrt(dLng * dLng + dLat * dLat)
    IN  IF distance = 0 THEN [i \in 1..101 |-> HNaN]
        ELSE
        LET p1 == previewControlPoint(p0, p2, k, seed, base)
            perpLng == p1.perpLng
            perpLat == p1.perpLat
            \* t = i / 100 and mt = 1 - t, in hundredths
            points == Array([j \in 1..101 |->
                LET t == j - 1
                    mt == 100 - t
                IN  [lng |-> RoundDiv(mt * mt * 1000 * p0.lng + 2 * mt * t * p1.lng
                                      + t * t * 1000 * p2.lng, 10000),
                     lat |-> RoundDiv(mt * mt * 1000 * p0.lat + 2 * mt * t * p1.lat
                                      + t * t * 1000 * p2.lat, 10000)]])
            baseAmplitude == RoundDiv(distance * 8, 1000)
            freq1 == 3000 + MathRandom(seed, base + 4) * 2
            freq2 == 8000 + MathRandom(seed, base + 5) * 4
            freq3 == 15000 + MathRandom(seed, base + 6) * 5
            phase1 == MathRandom(seed, base + 7) * 2
            phase2 == MathRandom(seed, base + 8) * 2
            phase3 == MathRandom(seed, base + 9) * 2
        \* t = index / points.length: t * freq is index * freq / 101
        IN  Array([j \in 1..101 |->
                LET index == j - 1
                    wave1 == RoundDiv(MathSin(RoundDiv(index * freq1, 101) + phase1)
                                      * baseAmplitude, 1000)
                    wave2 == RoundDiv(MathSin(RoundDiv(index * freq2, 101) + phase2)
                                      * baseAmplitude, 2000)
                    wave3 == RoundDiv(MathSin(RoundDiv(index * freq3, 101) + phase3)
                                      * baseAmplitude, 4000)
                    totalNoise == wave1 + wave2 + wave3
                IN  HPoint(points[j].lng + RoundDiv(perpLng * totalNoise, 1000),
                           points[j].lat + RoundDiv(perpLat * totalNoise, 1000))])


\* the smoothing loop of generatePathSegment of ArtworkPreview: the first two and the last two
\* points as they are, every other one the mean of the five around it
previewSmoothed(noisy) ==
    LET windowSize == 2
    IN  Array([j \in 1..Len(noisy) |->
            LET i == j - 1
            IN  IF i < windowSize \/ i >= Len(noisy) - windowSize
                THEN noisy[j]
                ELSE IF \E w \in -windowSize..windowSize : noisy[j + w].nan THEN HNaN
                ELSE HPoint(
                       RoundDiv(noisy[j - 2].lng + noisy[j - 1].lng + noisy[j].lng
                                + noisy[j + 1].lng + noisy[j + 2].lng, windowSize * 2 + 1),
                       RoundDiv(noisy[j - 2].lat + noisy[j - 1].lat + noisy[j].lat
                                + noisy[j + 1].lat + noisy[j + 2].lat, windowSize * 2 + 1))])

\* generatePathSegment of ArtworkPreview: the path data of the segment from p0 to p2
previewGeneratePathSegment(p0, p2, k, projection, seed, base) ==
    previewPathData(previewSmoothed(previewHumanizedPoints(p0, p2, k, seed, base)),
                    projection)

---------------------------------------------------------------------------
(* Anchor clicks on the map (handleClick) *)

\* String.prototype.trim on a sequence of characters
RECURSIVE trimStart(_)
trimStart(str) == IF Len(str) > 0 /\ str[1] = " " THEN trimStart(Tail(str)) ELSE str

RECURSIVE trimEnd(_)
trimEnd(str) ==
    IF Len(str) > 0 /\ str[Len(str)] = " "
    THEN trimEnd(SubSeq(str, 1, Len(str) - 1)) ELSE str

trim(str) == trimEnd(trimStart(str))

\* savePath returns at its first line when the title of its render is blank:
\* every such savePath is the same function
Inert == [title |-> <<>>, points |-> <<>>, id |-> 0]

\* savePath as a render defines it: it reads the title, the anchors and the
\* path id of that render
savePathOf(t, anchors, id) ==
    IF trim(t) = <<>> THEN Inert ELSE [title |-> t, points |-> anchors, id |-> id]

\* setTimeout(() => savePath(), delay): a timer whose savePath returns at its
\* first line does nothing when it fires and is not kept
setTimeout(timers, from, delay, save) ==
    IF save = Inert THEN timers
    ELSE Append(timers, [from |-> from, delay |-> delay, savePath |-> save])

\* a timer can be set while fewer than MaxTimers are waiting
CanSet(save) == save = Inert \/ Len(saveTimers) < MaxTimers

NoRequest == [op |-> "none", id |-> 0, title |-> <<>>, points |-> <<>>]
NoDraw == [anchors |-> <<>>, mode |-> "balanced"]

\* the title, the saving and the map style after the first render: the
\* handleClick registered on mount holds the savePath of that render
LvIdle ==
    /\ title = <<>>
    /\ origin = <<>>
    /\ destination = <<>>
    /\ currentPathId = 0
    /\ mapStyle = "minimal"
    /\ stylePc = "idle"
    /\ styleDraw = NoDraw
    /\ clickSavePath = Inert
    /\ saveTimers = <<>>
    /\ saveRequests = <<>>
    /\ svRequest = NoRequest
    /\ rowCount = 0
    /\ clearedAt = 0

\* the places a click can land on: pairs of them share a longitude, a
\* latitude, or neither
GridAnchors == {Anchor(0, 0), Anchor(20, 10)}

\* the markers/path effect has yet to run for the current state
DrawPending == drawnDeps # <<geoAnchors, curvatureMode, isEraseMode>>

\* event handlers run once the effects of the previous render have run
Interactive == hzPc = "idle" /\ ~DrawPending /\ stylePc # "loading"

\* what a consumer of the journey (drawPathOnMap, exportAsPNG, ArtworkPreview)
\* did when it last ran: the number of anchors in the list it was given,
\* whether it went on to its bbox, projection, humanizer and fetch, and
\* whether it came to a document
Run(who, anchors, work, doc) ==
    [who |-> who, n |-> Len(anchors), work |-> work, doc |-> doc]

NoRun == [who |-> "none", n |-> 0, work |-> FALSE, doc |-> FALSE]

\* the guard of the three consumers: geoAnchors.length < 2
belowThresholdOne(anchors) == Len(anchors) < 1
belowThreshold(anchors) == Len(anchors) < 2

ClickInit ==
    /\ geoAnchors = <<>>
    /\ isEraseMode = FALSE
    /\ hasLoaded = FALSE

\* the path state after the first render: no path layer, nothing exported
HzIdle ==
    /\ curvatureMode = "balanced"
    /\ pathSource = <<>>
    /\ drawnDeps = <<geoAnchors, "balanced", FALSE>>
    /\ hzPc = "idle"
    /\ exFullPath = <<>>
    /\ pvFullPath = <<>>
    /\ hzRun = NoRun

\* the Place / Undo buttons
SetIsEraseMode(b) ==
    /\ Interactive
    /\ isEraseMode # b
    /\ isEraseMode' = b
    /\ clickSavePath' = savePathOf(title, geoAnchors, currentPathId)
    /\ UNCHANGED <<title, origin, destination, currentPathId, mapStyle, stylePc,
                   styleDraw, saveTimers, saveRequests, svRequest, rowCount, clearedAt>>
    /\ UNCHANGED <<pxVars, geoAnchors, hasLoaded, pjVars, gxVars, hzVars>>

\* a map click in place mode appends the clicked anchor
HandleClickPlace(a) ==
    /\ Interactive
    /\ ~isEraseMode
    /\ Len(geoAnchors) < MaxAnchors
    /\ CanSet(clickSavePath)
    /\ geoAnchors' = Append(geoAnchors, a)
    /\ saveTimers' = setTimeout(saveTimers, "click", 100, clickSavePath)
    /\ UNCHANGED <<title, origin, destination, currentPathId, mapStyle, stylePc,
                   styleDraw, clickSavePath, saveRequests, svRequest, rowCount,
                   clearedAt>>
    /\ UNCHANGED <<pxVars, isEraseMode, hasLoaded, pjVars, gxVars, hzVars>>

\* a map click in erase mode drops the last anchor
HandleClickErase ==
    /\ Interactive
    /\ isEraseMode
    /\ CanSet(clickSavePath)
    /\ geoAnchors' = IF Len(geoAnchors) > 0
                     THEN SubSeq(geoAnchors, 1, Len(geoAnchors) - 1)
                     ELSE geoAnchors
    /\ saveTimers' = IF Len(geoAnchors) > 0
                     THEN setTimeout(saveTimers, "click", 100, clickSavePath)
                     ELSE saveTimers
    /\ UNCHANGED <<title, origin, destination, currentPathId, mapStyle, stylePc,
                   styleDraw, clickSavePath, saveRequests, svRequest, rowCount,
                   clearedAt>>
    /\ UNCHANGED <<pxVars, isEraseMode, hasLoaded, pjVars, gxVars, hzVars>>

\* clearPath: the Clear button empties the journey, the title, the origin and
\* the destination and forgets the path id
ClearPath ==
    /\ Interactive
    /\ geoAnchors # <<>> \/ title # <<>> \/ currentPathId # 0
    /\ geoAnchors' = <<>>
    /\ title' = <<>>
    /\ origin' = <<>>
    /\ destination' = <<>>
    /\ currentPathId' = 0
    /\ clearedAt' = rowCount
    /\ UNCHANGED <<mapStyle, stylePc, styleDraw, clickSavePath, saveTimers,
                   saveRequests, svRequest, rowCount>>
    /\ UNCHANGED <<pxVars, isEraseMode, hasLoaded, pjVars, gxVars, hzVars>>

---------------------------------------------------------------------------
(* The journey path on the live map, in the export and in the preview *)

\* a stored journey whose second segment runs south along the east edge of
\* its bbox; its first two anchors are places a click can land on
StoredJourney == <<Anchor(0, 0), Anchor(20, 10), Anchor(20, -12)>>

\* the stored paths loadPath may find in the journey-path runs: no anchors,
\* one anchor, and the journey above
StoredPaths ==
    {Stored(<<>>, ""),
     Stored(<<Anchor(0, 0)>>, "calm"),
     Stored(StoredJourney, "tension")}

\* the journeys of two anchors and more that can come to be on the map:
\* placed click by click, or the stored journey and what is placed after it
Journeys ==
    UNION {[1..n -> GridAnchors] : n \in 2..MaxAnchors}
    \cup {StoredJourney \o s :
             s \in UNION {[1..n -> GridAnchors] : n \in 0..MaxAnchors - Len(StoredJourney)}}

\* the generator states the random streams start from: state 0, and states
\* whose streams hold numbers near both ends of [0, 1)
Seeds == {(218 * s) % 997 : s \in 0..MaxSeed}

\* a function as the table of its values, each computed once
Table(f) == f @@ <<>>

\* the calls of the humanizer the journeys lead to: a segment from one anchor
\* to the next and the number of random numbers drawn before it; for the
\* export and the preview also the bbox of the journey
LiveRuns ==
    UNION {{<<j[i], j[i + 1], 9 * (i - 1)>> : i \in 1..Len(j) - 1} : j \in Journeys}

ExportRuns ==
    UNION {{<<j[i], j[i + 1], 9 * (i - 1), exportBBox(j)>> : i \in 1..Len(j) - 1} :
             j \in Journeys}

PreviewRuns ==
    UNION {{<<j[i], j[i + 1], 9 * (i - 1), previewBBox(j)>> : i \in 1..Len(j) - 1} :
             j \in Journeys}

\* what the three humanizers give for every such call, flow and random stream
drawnSegment ==
    Table([r \in LiveRuns, mode \in CurvatureModes, seed \in Seeds |->
              generateHumanizedPath(r[1], r[2], CURVATURE(mode), seed, r[3])])

exportedSegment ==
    Table([r \in ExportRuns, mode \in CurvatureModes, seed \in Seeds |->
              exportGeneratePathSegment(r[1], r[2], CURVATURE(mode),
                                        pageProjection(r[4]), seed, r[3])])

previewedSegment ==
    Table([r \in PreviewRuns, mode \in CurvatureModes, seed \in Seeds |->
              previewGeneratePathSegment(r[1], r[2], previewCURVATURE(mode),
                                         pageProjection(r[4]), seed, r[3])])

\* the loop of drawPathOnMap from segment i on: the points of the segments,
\* one after the other (segment i draws the numbers 9 (i - 1) + 1 .. 9 i)
RECURSIVE allPathPoints(_, _, _, _)
allPathPoints(anchors, i, mode, seed) ==
    IF i > Len(anchors) - 1 THEN <<>>
    ELSE drawnSegment[<<anchors[i], anchors[i + 1], 9 * (i - 1)>>, mode, seed]
         \o allPathPoints(anchors, i + 1, mode, seed)

\* the fullPath loop of exportAsPNG from segment i on
RECURSIVE exportFullPath(_, _, _, _, _)
exportFullPath(anchors, i, mode, bbox, seed) ==
    IF i > Len(anchors) - 1 THEN <<>>
    ELSE exportedSegment[<<anchors[i], anchors[i + 1], 9 * (i - 1), bbox>>, mode, seed]
         \o exportFullPath(anchors, i + 1, mode, bbox, seed)

\* the fullPath loop of ArtworkPreview from segment i on
RECURSIVE previewFullPath(_, _, _, _, _)
previewFullPath(anchors, i, mode, bbox, seed) ==
    IF i > Len(anchors) - 1 THEN <<>>
    ELSE previewedSegment[<<anchors[i], anchors[i + 1], 9 * (i - 1), bbox>>, mode, seed]
         \o previewFullPath(anchors, i + 1, mode, bbox, seed)

\* what the three loops give for a journey, a flow and a random stream
drawnPath ==
    [anchors \in Journeys, mode \in CurvatureModes, seed \in Seeds |->
        allPathPoints(anchors, 1, mode, seed)]

exportedPath ==
    [anchors \in Journeys, mode \in CurvatureModes, seed \in Seeds |->
        exportFullPath(anchors, 1, mode, exportBBox(anchors), seed)]

previewedPath ==
    [anchors \in Journeys, mode \in CurvatureModes, seed \in Seeds |->
        previewFullPath(anchors, 1, mode, previewBBox(anchors), seed)]

\* the three loops for a list of anchors: below two anchors they do not run
drawnPathOf(anchors, mode, seed) ==
    IF Len(anchors) < 2 THEN <<>> ELSE drawnPath[anchors, mode, seed]

exportedPathOf(anchors, mode, seed) ==
    IF Len(anchors) < 2 THEN <<>> ELSE exportedPath[anchors, mode, seed]

previewedPathOf(anchors, mode, seed) ==
    IF Len(anchors) < 2 THEN <<>> ELSE previewedPath[anchors, mode, seed]

\* the Flow buttons
SetCurvatureMode(mode) ==
    /\ Interactive
    /\ mode # curvatureMode
    /\ curvatureMode' = mode
    /\ UNCHANGED <<lvVars, pxVars, pathSource, drawnDeps, hzPc, exFullPath, pvFullPath,
                   hzRun, clickVars, pjVars, gxVars>>

\* the effect on [geoAnchors, curvatureMode, isEraseMode]: without anchors
\* the path layer is removed; otherwise drawPathOnMap runs, which returns
\* early below two anchors and else replaces the layer
MarkersEffect(seed) ==
    /\ hzPc = "idle"
    /\ DrawPending
    /\ drawnDeps' = <<geoAnchors, curvatureMode, isEraseMode>>
    /\ pathSource' =
          IF Len(geoAnchors) = 0 THEN <<>>
          ELSE IF belowThreshold(geoAnchors) THEN pathSource
          ELSE drawnPathOf(geoAnchors, curvatureMode, seed)
    /\ hzRun' = IF Len(geoAnchors) = 0 THEN hzRun
                ELSE Run("live", geoAnchors, ~belowThreshold(geoAnchors), FALSE)
    /\ UNCHANGED <<lvVars, pxVars, curvatureMode, hzPc, exFullPath, pvFullPath,
                   clickVars, pjVars, gxVars>>

\* the style buttons: the effect on [mapStyle] calls map.setStyle and waits for
\* style.load with the drawPathOnMap of its render
SetMapStyle(style) ==
    /\ Interactive
    /\ stylePc = "idle"
    /\ style # mapStyle
    /\ mapStyle' = style
    /\ stylePc' = "loading"
    /\ styleDraw' = [anchors |-> geoAnchors, mode |-> curvatureMode]
    /\ UNCHANGED <<title, origin, destination, currentPathId, clickSavePath,
                   saveTimers, saveRequests, svRequest, rowCount, clearedAt>>
    /\ UNCHANGED <<pxVars, clickVars, pjVars, gxVars, hzVars>>

\* style.load fires: the new style has none of the layers added to the old
\* one, and the callback sets the timer of 100 ms
StyleLoad ==
    /\ stylePc = "loading"
    /\ stylePc' = "timer"
    /\ pathSource' = <<>>
    /\ UNCHANGED <<title, origin, destination, currentPathId, mapStyle, styleDraw,
                   clickSavePath, saveTimers, saveRequests, svRequest, rowCount,
                   clearedAt>>
    /\ UNCHANGED <<pxVars, curvatureMode, drawnDeps, hzPc, exFullPath, pvFullPath,
                   hzRun, clickVars, pjVars, gxVars>>

\* the timer of the style effect fires: drawPathOnMap of the render the style
\* changed in
StyleTimer(seed) ==
    /\ stylePc = "timer"
    /\ hzPc = "idle"
    /\ ~DrawPending
    /\ stylePc' = "idle"
    /\ pathSource' =
          IF belowThreshold(styleDraw.anchors) THEN pathSource
          ELSE drawnPathOf(styleDraw.anchors, styleDraw.mode, seed)
    /\ hzRun' = Run("live", styleDraw.anchors, ~belowThreshold(styleDraw.anchors), FALSE)
    /\ UNCHANGED <<title, origin, destination, currentPathId, mapStyle, styleDraw,
                   clickSavePath, saveTimers, saveRequests, svRequest, rowCount,
                   clearedAt>>
    /\ UNCHANGED <<pxVars, curvatureMode, drawnDeps, hzPc, exFullPath, pvFullPath,
                   clickVars, pjVars, gxVars>>

\* titles typed into the title field
TitleInputs == {<<>>, <<"A">>}

\* handleTitleChange: the title is set and, unless the new title is blank, a
\* timer of 300 ms is set with the savePath of the render the handler is of
handleTitleChange(newTitle) ==
    /\ Interactive
    /\ newTitle # title
    /\ trim(newTitle) = <<>> \/ CanSet(savePathOf(title, geoAnchors, currentPathId))
    /\ title' = newTitle
    /\ saveTimers' =
          IF trim(newTitle) # <<>>
          THEN setTimeout(saveTimers, "title", 300,
                          savePathOf(title, geoAnchors, currentPathId))
          ELSE saveTimers
    /\ UNCHANGED <<origin, destination, currentPathId, mapStyle, stylePc, styleDraw,
                   clickSavePath, saveRequests, svRequest, rowCount, clearedAt>>
    /\ UNCHANGED <<pxVars, clickVars, pjVars, gxVars, hzVars>>

\* timer i is due before every timer set after it, and before a timer set
\* earlier only if its delay is shorter
Due(i) == \A j \in 1..i - 1 : saveTimers[j].delay > saveTimers[i].delay

\* the sequence without its element i
Without(seq, i) == SubSeq(seq, 1, i - 1) \o SubSeq(seq, i + 1, Len(seq))

\* the request savePath sends: an update of the row of its path id, or an
\* insert when it has none; the table gives the new row the next id
savePath(save, nextId) ==
    IF save.id # 0
    THEN [op |-> "update", id |-> save.id, title |-> save.title, points |-> save.points]
    ELSE [op |-> "insert", id |-> nextId, title |-> save.title, points |-> save.points]

\* save timer i fires and its savePath runs up to its await
SaveTimer(i) ==
    /\ hzPc = "idle"
    /\ ~DrawPending
    /\ Due(i)
    /\ saveTimers[i].savePath.id = 0 => rowCount < MaxRows
    /\ saveTimers' = Without(saveTimers, i)
    /\ svRequest' = savePath(saveTimers[i].savePath, rowCount + 1)
    /\ IF saveTimers[i].savePath.id = 0
       THEN /\ rowCount' = rowCount + 1
            /\ saveRequests' = Append(saveRequests, rowCount + 1)
       ELSE UNCHANGED <<rowCount, saveRequests>>
    /\ UNCHANGED <<title, origin, destination, currentPathId, mapStyle, stylePc,
                   styleDraw, clickSavePath, clearedAt>>
    /\ UNCHANGED <<pxVars, clickVars, pjVars, gxVars, hzVars>>

\* the response of the oldest insert comes: setCurrentPathId(data.id)
InsertResponse ==
    /\ hzPc = "idle"
    /\ ~DrawPending
    /\ saveRequests # <<>>
    /\ currentPathId' = Head(saveRequests)
    /\ saveRequests' = Tail(saveRequests)
    /\ UNCHANGED <<title, origin, destination, mapStyle, stylePc, styleDraw,
                   clickSavePath, saveTimers, svRequest, rowCount, clearedAt>>
    /\ UNCHANGED <<pxVars, clickVars, pjVars, gxVars, hzVars>>

\* exportAsPNG as far as the journey path: below two anchors it alerts and
\* returns, else it goes on to the document
ExportPath(seed) ==
    /\ Interactive
    /\ IF belowThreshold(geoAnchors)
       THEN /\ hzRun' = Run("export", geoAnchors, FALSE, FALSE)
            /\ UNCHANGED <<exFullPath, hzPc>>
       ELSE /\ exFullPath' = exportedPathOf(geoAnchors, curvatureMode, seed)
            /\ hzPc' = "exported"
            /\ hzRun' = Run("export", geoAnchors, TRUE, TRUE)
    /\ UNCHANGED <<lvVars, pxVars, curvatureMode, pathSource, drawnDeps, pvFullPath,
                   clickVars, pjVars, gxVars>>

\* one render of ArtworkPreview as far as the journey path; every render
\* generates the path anew
PreviewPath(seed) ==
    /\ hzPc \in {"idle", "previewed"}
    /\ ~DrawPending
    /\ IF belowThreshold(geoAnchors)
       THEN /\ hzRun' = Run("preview", geoAnchors, FALSE, FALSE)
            /\ UNCHANGED <<pvFullPath, hzPc>>
       ELSE /\ pvFullPath' = previewedPathOf(geoAnchors, curvatureMode, seed)
            /\ hzPc' = "previewed"
            /\ hzRun' = Run("preview", geoAnchors, TRUE, TRUE)
    /\ UNCHANGED <<lvVars, pxVars, curvatureMode, pathSource, drawnDeps, exFullPath,
                   clickVars, pjVars, gxVars>>

---------------------------------------------------------------------------
(* Projection runs: a direct call of calculateProjection on an arbitrary   *)
(* bbox and canvas, or the bbox and canvas of the export / the preview.    *)

NoBBox == [minLng |-> N(0), maxLng |-> N(0), minLat |-> N(0), maxLat |-> N(0)]
NoCanvas == [w |-> N(0), h |-> N(0), margin |-> N(0)]
NoParams == [bbox |-> NoBBox, width |-> N(0), height |-> N(0),
             offsetX |-> N(0), offsetY |-> N(0), scale |-> N(0)]
NoXY == [x |-> N(0), y |-> N(0)]
NoLngLat == [lng |-> N(0), lat |-> N(0)]

PjIdle ==
    /\ pjPc = "idle"
    /\ pjCaller = "none"
    /\ pjBBox = NoBBox
    /\ pjCanvas = NoCanvas
    /\ pjParams = NoParams
    /\ pjPoint = NoLngLat
    /\ pjOut = NoXY

\* canvases and margins of a direct call
DirectCanvas == {[w |-> N(6), h |-> N(4), margin |-> N(1)],
                 [w |-> N(4), h |-> N(6), margin |-> N(0)],
                 [w |-> N(5), h |-> N(5), margin |-> N(2)]}

\* bboxes of a direct call: integer corners, min <= max on both axes
DirectBBox ==
    {[minLng |-> N(a), maxLng |-> N(b), minLat |-> N(c), maxLat |-> N(d)] :
        <<a, b, c, d>> \in
            {q \in (0..CoordMax) \X (0..CoordMax) \X (0..CoordMax) \X (0..CoordMax) :
                q[1] <= q[2] /\ q[3] <= q[4]}}

PjDirect(b, c) ==
    /\ pjPc = "idle"
    /\ geoAnchors = <<>>
    /\ pjCaller' = "direct"
    /\ pjBBox' = b
    /\ pjCanvas' = c
    /\ pjPc' = "bbox"
    /\ UNCHANGED <<lvVars, pxVars, pjParams, pjPoint, pjOut, clickVars, gxVars, hzVars>>

\* exportAsPNG up to its bbox (returns early below two anchors)
PjExport ==
    /\ pjPc = "idle"
    /\ Len(geoAnchors) >= 2
    /\ pjCaller' = "export"
    /\ pjBBox' = exportBBox(geoAnchors)
    /\ pjCanvas' = [w |-> N(mapAreaWidth), h |-> N(mapAreaHeight), margin |-> N(0)]
    /\ pjPc' = "bbox"
    /\ UNCHANGED <<lvVars, pxVars, pjParams, pjPoint, pjOut, clickVars, gxVars, hzVars>>

\* a render of ArtworkPreview up to its bbox (renders nothing below two anchors)
PjPreview ==
    /\ pjPc = "idle"
    /\ Len(geoAnchors) >= 2
    /\ pjCaller' = "preview"
    /\ pjBBox' = previewBBox(geoAnchors)
    /\ pjCanvas' = [w |-> N(mapAreaWidth), h |-> N(mapAreaHeight), margin |-> N(0)]
    /\ pjPc' = "bbox"
    /\ UNCHANGED <<lvVars, pxVars, pjParams, pjPoint, pjOut, clickVars, gxVars, hzVars>>

PjCalculate ==
    /\ pjPc = "bbox"
    /\ pjParams' = calculateProjection(pjBBox, pjCanvas.w, pjCanvas.h, pjCanvas.margin)
    /\ pjPc' = "projected"
    /\ UNCHANGED <<lvVars, pxVars, pjCaller, pjBBox, pjCanvas, pjPoint, pjOut, clickVars, gxVars, hzVars>>

\* the four corners of the bbox
Corners(b) == {[lng |-> x, lat |-> y] : x \in {b.minLng, b.maxLng}, y \in {b.minLat, b.maxLat}}

\* the points handed to projectToSVG: bbox corners, and the anchors of the journey
PjPoints ==
    Corners(pjBBox) \cup
    {[lng |-> N(geoAnchors[i].lng), lat |-> N(geoAnchors[i].lat)] : i \in 1..Len(geoAnchors)}

PjProject(p) ==
    /\ pjPc \in {"projected", "point"}
    /\ pjPoint' = p
    /\ pjOut' = projectToSVG(p.lng, p.lat, pjParams)
    /\ pjPc' = "point"
    /\ UNCHANGED <<lvVars, pxVars, pjCaller, pjBBox, pjCanvas, pjParams, clickVars, gxVars, hzVars>>

---------------------------------------------------------------------------
(* Geography runs: the export's fetch and composition, filterByBBox and    *)
(* lineToPath called directly, and the preview component.                  *)

GxIdle ==
    /\ gxPc = "idle"
    /\ exBBox = NoBBox
    /\ exProjection = NoParams
    /\ fxResults = [i \in Layers |-> Pending]
    /\ fxOutcomes = [i \in Layers |-> "none"]
    /\ exGeoData = JNull
    /\ exDoc = <<>>
    /\ ftIn = JNull
    /\ ftBBox = NoBBox
    /\ ftOut = EMPTY
    /\ lnIn = JA(<<>>)
    /\ lnOut = <<>>
    /\ pvShown = FALSE
    /\ pvInstance = 0
    /\ pvBBox = NoBBox
    /\ pvEffectPending = FALSE
    /\ pvInv = <<>>
    /\ pvGeoData = JNull
    /\ pvIsLoadingGeo = TRUE
    /\ pvWriter = 0
    /\ pvDoc = <<>>

\* exportAsPNG up to its await: bbox, projection, and the five proxy requests,
\* all dispatched by datasets.map before any of them settles
ExportStart ==
    /\ gxPc = "idle"
    /\ pvInstance = 0
    /\ Len(geoAnchors) >= 2
    /\ exBBox' = exportBBox(geoAnchors)
    /\ exProjection' = pageProjection(exportBBox(geoAnchors))
    /\ fxResults' = [i \in Layers |-> Pending]
    /\ gxPc' = "fetching"
    /\ UNCHANGED <<lvVars, pxVars, fxOutcomes, exGeoData, exDoc, ftVars, lnVars, pvVars, clickVars, pjVars, hzVars>>

\* the proxy request of layer i comes to outcome o and its promise settles
FxSettle(i, o) ==
    /\ gxPc = "fetching"
    /\ fxResults[i].status = "pending"
    /\ fxResults' = [fxResults EXCEPT ![i] = fetchViaProxy(i, o, exBBox)]
    /\ fxOutcomes' = [fxOutcomes EXCEPT ![i] = IF o = "ok" THEN "ok" ELSE "failed"]
    /\ UNCHANGED <<lvVars, pxVars, gxPc, exBBox, exProjection, exGeoData, exDoc, ftVars, lnVars,
                   pvVars, clickVars, pjVars, hzVars>>

\* Promise.allSettled resolves once all five have settled: fetchNaturalEarthData
\* returns the data and exportAsPNG builds the document
ExportResume ==
    /\ gxPc = "fetching"
    /\ \A i \in Layers : fxResults[i].status # "pending"
    /\ exGeoData' = geographicData(fxResults)
    /\ exDoc' = exportDocument(geographicData(fxResults), exBBox, exProjection,
                                geoAnchors, title, origin, destination)
    /\ gxPc' = "done"
    /\ UNCHANGED <<lvVars, pxVars, exBBox, exProjection, fxResults, fxOutcomes, ftVars, lnVars,
                   pvVars, clickVars, pjVars, hzVars>>

\* features a collection handed to filterByBBox is made of
FeatureUniverse ==
    {coastlineData[i] : i \in 1..Len(coastlineData)}
    \cup {riversData[i] : i \in 1..Len(riversData)}
    \cup {lakesData[i] : i \in 1..Len(lakesData)}
    \cup {landData[i] : i \in 1..Len(landData)}
    \cup {bordersData[i] : i \in 1..Len(bordersData)}
    \cup {Feature(Geometry("Point", Pt(5, 5))),
          Feature(Geometry("Point", Pt(5, 17))),
          Feature(Geometry("Point", JA(<<JN(5), JN(5), JN(100)>>))),
          Feature(Geometry("LineString", JA(<<>>)))}

SeqsUpTo(S, n) == UNION {[1..k -> S] : k \in 0..n}

FilterBBoxes == {exportBBox(j.points) : j \in LoadedJourneys}

FilterDirect ==
    /\ gxPc = "idle"
    /\ geoAnchors = <<>>
    /\ ~hasLoaded
    /\ \E fs \in SeqsUpTo(FeatureUniverse, MaxFeatures), b \in FilterBBoxes :
          /\ ftIn' = [t |-> "obj", features |-> JA(fs)]
          /\ ftBBox' = b
          /\ ftOut' = filterByBBox([t |-> "obj", features |-> JA(fs)], b).value
    /\ gxPc' = "filtered"
    /\ UNCHANGED <<lvVars, pxVars, exVars, lnVars, pvVars, clickVars, pjVars, hzVars>>

\* coordinates a line handed to lineToPath is made of: two valid ones, one with
\* an invalid latitude and one with an invalid longitude
CoordUniverse == {Pt(2, 3), Pt(8, 7), Pt(5, 95), Pt(200, 0)}

LineProjection == pageProjection(exportBBox(<<Anchor(0, 0), Anchor(10, 10)>>))

LineDirect ==
    /\ gxPc = "idle"
    /\ geoAnchors = <<>>
    /\ ~hasLoaded
    /\ \E cs \in SeqsUpTo(CoordUniverse, MaxLine) :
          /\ lnIn' = JA(cs)
          /\ lnOut' = lineToPath(JA(cs), LineProjection)
    /\ gxPc' = "lined"
    /\ UNCHANGED <<lvVars, pxVars, exVars, ftVars, pvVars, clickVars, pjVars, hzVars>>

\* loadPath resolves with the stored journey; an open preview renders again
LoadPath(data) ==
    /\ ~hasLoaded
    /\ gxPc = "idle"
    /\ pjPc = "idle"
    /\ hzPc = "idle"
    /\ data.points # geoAnchors
    /\ hasLoaded' = TRUE
    /\ geoAnchors' = data.points
    /\ curvatureMode' = IF data.curvature_mode = "" THEN "balanced"
                        ELSE data.curvature_mode
    /\ currentPathId' = data.id
    /\ title' = data.title
    /\ origin' = data.origin
    /\ destination' = data.destination
    /\ IF pvShown
       THEN /\ pvBBox' = previewBBox(data.points)
            /\ pvEffectPending' = (pvEffectPending \/ previewBBox(data.points) # pvBBox)
            /\ pvDoc' = previewRender(pvGeoData, pvIsLoadingGeo,
                                      previewBBox(data.points),
                                      pageProjection(previewBBox(data.points)),
                                      data.points)
       ELSE UNCHANGED <<pvBBox, pvEffectPending, pvDoc>>
    /\ UNCHANGED <<mapStyle, stylePc, styleDraw, clickSavePath, saveTimers,
                   saveRequests, svRequest, rowCount, clearedAt>>
    /\ UNCHANGED <<pxVars, isEraseMode, gxPc, exVars, ftVars, lnVars, pvShown, pvInstance,
                   pvInv, pvGeoData, pvIsLoadingGeo, pvWriter, pjVars,
                   pathSource, drawnDeps, hzPc, exFullPath, pvFullPath, hzRun>>

\* setShowPreview(true): a new ArtworkPreview mounts and renders
ShowPreview ==
    /\ gxPc = "idle"
    /\ ~pvShown
    /\ Len(geoAnchors) >= 2
    /\ pvInstance < MaxInvocations
    /\ pvShown' = TRUE
    /\ pvInstance' = pvInstance + 1
    /\ pvGeoData' = JNull
    /\ pvIsLoadingGeo' = TRUE
    /\ pvWriter' = 0
    /\ pvBBox' = previewBBox(geoAnchors)
    /\ pvEffectPending' = TRUE
    /\ pvDoc' = previewRender(JNull, TRUE, previewBBox(geoAnchors),
                              pageProjection(previewBBox(geoAnchors)), geoAnchors)
    /\ UNCHANGED <<lvVars, pxVars, gxPc, exVars, ftVars, lnVars, pvInv, clickVars, pjVars, hzVars>>

\* the invocations of the mounted instance get their cancelled flag set
Cancel(invs, instance) ==
    [k \in 1..Len(invs) |->
        IF invs[k].instance = instance THEN [invs[k] EXCEPT !.cancelled = TRUE]
        ELSE invs[k]]

\* the effect runs: the cleanup of the previous run of this instance, then
\* load() starts: setIsLoadingGeo(true) and the fetch
PvEffect ==
    /\ pvShown
    /\ pvEffectPending
    /\ Len(pvInv) < MaxInvocations
    /\ pvInv' = Append(Cancel(pvInv, pvInstance),
                       [instance |-> pvInstance, bbox |-> pvBBox,
                        cancelled |-> FALSE, settled |-> FALSE])
    /\ pvEffectPending' = FALSE
    /\ pvIsLoadingGeo' = TRUE
    /\ pvDoc' = previewRender(pvGeoData, TRUE, pvBBox, pageProjection(pvBBox),
                              geoAnchors)
    /\ UNCHANGED <<lvVars, pxVars, gxPc, exVars, ftVars, lnVars, pvShown, pvInstance, pvBBox,
                   pvGeoData, pvWriter, clickVars, pjVars, hzVars>>

\* the outcomes of the five requests of one preview fetch
PreviewOutcomes ==
    {[i \in Layers |-> "ok"],
     [i \in Layers |-> "notok"],
     [i \in Layers |-> IF i = 5 THEN "ok" ELSE "neterr"],
     [i \in Layers |-> IF i = 1 THEN "badjson" ELSE "ok"]}

\* does the continuation of load() deliver its result
deliversAlways(inv) == TRUE
delivers(inv) == ~inv.cancelled

\* isLoadingGeo after the finally of a load() that was not cancelled
loadFinallySkipped(isLoadingGeo) == isLoadingGeo
loadFinally(isLoadingGeo) == FALSE

\* the fetch of invocation k resolves and the rest of load() runs
PvResolve(k, outcomes) ==
    /\ k \in 1..Len(pvInv)
    /\ ~pvInv[k].settled
    /\ pvInv' = [pvInv EXCEPT ![k].settled = TRUE]
    /\ IF delivers(pvInv[k]) /\ pvShown /\ pvInv[k].instance = pvInstance
       THEN /\ pvGeoData' = fetchNaturalEarthData(outcomes, pvInv[k].bbox)
            /\ pvIsLoadingGeo' = loadFinally(pvIsLoadingGeo)
            /\ pvWriter' = k
            /\ pvDoc' = previewRender(
                            fetchNaturalEarthData(outcomes, pvInv[k].bbox),
                            loadFinally(pvIsLoadingGeo),
                            pvBBox, pageProjection(pvBBox), geoAnchors)
       ELSE UNCHANGED <<pvGeoData, pvIsLoadingGeo, pvWriter, pvDoc>>
    /\ UNCHANGED <<lvVars, pxVars, gxPc, exVars, ftVars, lnVars, pvShown, pvInstance, pvBBox,
                   pvEffectPending, clickVars, pjVars, hzVars>>

\* onClose: the component unmounts and the cleanup of its effect runs
PvClose ==
    /\ pvShown
    /\ pvShown' = FALSE
    /\ pvInv' = Cancel(pvInv, pvInstance)
    /\ pvEffectPending' = FALSE
    /\ pvGeoData' = JNull
    /\ pvIsLoadingGeo' = TRUE
    /\ pvWriter' = 0
    /\ pvDoc' = <<>>
    /\ UNCHANGED <<lvVars, pxVars, gxPc, exVars, ftVars, lnVars, pvInstance, pvBBox, clickVars, pjVars, hzVars>>

---------------------------------------------------------------------------
(* THE /api/geo PROXY  (route.ts 1-36, part_000 1-68) and the requests     *)
(* fetchNaturalEarthData makes to it (maputils.ts 94-140).                 *)
(* A request is [layer, hasParam, dataset, pc, upstream, status]: layer is *)
(* the index of the dataset in fetchNaturalEarthData (0 when the request   *)
(* does not come from it), hasParam tells whether the dataset parameter is *)
(* there, upstream is the list of CDN urls the handler has fetched, status *)
(* the status of its response (0: none yet).                               *)
(* pc: "sent" -> "upstream" -> "responded" -> "fulfilled" | "rejected".    *)

ALLOWED_DATASETS ==
    {"physical/ne_110m_coastline",
     "physical/ne_110m_rivers_lake_centerlines",
     "physical/ne_110m_lakes",
     "physical/ne_110m_land",
     "cultural/ne_110m_admin_0_boundary_lines_land",
     "physical/ne_50m_coastline",
     "physical/ne_50m_rivers_lake_centerlines",
     "physical/ne_50m_lakes",
     "physical/ne_50m_land",
     "cultural/ne_50m_admin_0_boundary_lines_land"}

\* datasets of fetchNaturalEarthData
datasets ==
    <<"physical/ne_110m_coastline",
      "physical/ne_110m_rivers_lake_centerlines",
      "physical/ne_110m_lakes",
      "physical/ne_110m_land",
      "cultural/ne_110m_admin_0_boundary_lines_land">>

\* the two GET handlers of the repository
Handlers == {"route", "allowlist"}

\* requests made to the proxy from outside the application: no parameter, an
\* empty one, names on the allow-list and names that are not
OutsideRequests ==
    {[hasParam |-> FALSE, dataset |-> ""],
     [hasParam |-> TRUE, dataset |-> ""],
     [hasParam |-> TRUE, dataset |-> "physical/ne_110m_land"],
     [hasParam |-> TRUE, dataset |-> "physical/ne_50m_lakes"],
     [hasParam |-> TRUE, dataset |-> "physical/ne_10m_land"],
     [hasParam |-> TRUE, dataset |-> "cultural/ne_10m_admin_1_states_provinces"]}

Request(layer, hasParam, dataset) ==
    [layer |-> layer, hasParam |-> hasParam, dataset |-> dataset,
     pc |-> "sent", upstream |-> <<>>, status |-> 0]

\* !dataset of the handlers: searchParams.get gives null without the parameter
NoDataset(req) == ~req.hasParam \/ req.dataset = ""

\* cdnUrl of each handler, as the path below https://naciscdn.org/naturalearth/
cdnUrl(handler, dataset) ==
    IF handler = "route" THEN <<"10m", dataset>> ELSE <<dataset>>

\* GET of route.ts up to its upstream fetch: only a missing parameter is refused
routeGET(req) ==
    IF NoDataset(req)
    THEN [req EXCEPT !.pc = "responded", !.status = 400]
    ELSE [req EXCEPT !.pc = "upstream",
                     !.upstream = Append(@, cdnUrl("route", req.dataset))]

\* GET of part_000 up to its upstream fetch: a missing parameter and a name
\* that is not on the allow-list are refused
allowlistGET(req) ==
    IF NoDataset(req)
    THEN [req EXCEPT !.pc = "responded", !.status = 400]
    ELSE IF req.dataset \notin ALLOWED_DATASETS
    THEN [req EXCEPT !.pc = "responded", !.status = 400]
    ELSE [req EXCEPT !.pc = "upstream",
                     !.upstream = Append(@, cdnUrl("allowlist", req.dataset))]

\* what the upstream fetch of a handler comes to: it rejects (network error,
\* or the 15 s timeout of part_000), answers with a non-OK status, with a body
\* that is no JSON, or with the dataset
UpstreamOutcomes == {"neterr", "notok", "badjson", "ok"}

\* the rest of GET: everything but a parsed OK answer is caught and becomes 500
upstreamStatus(outcome) == IF outcome = "ok" THEN 200 ELSE 500

\* the bbox of the call of fetchNaturalEarthData
PxBBox == exportBBox(<<Anchor(0, 0), Anchor(10, 10)>>)

\* the promise of fetchViaProxy for a request: pending until the request is
\* settled, then what fetchViaProxy makes of the response
promiseOf(req) ==
    CASE req.pc = "rejected" -> Rejected
      [] req.pc = "fulfilled" -> fetchViaProxy(req.layer, "ok", PxBBox)
      [] OTHER -> Pending

\* Promise.allSettled(results) has resolved / Promise.all would have settled
promiseAll(reqs) ==
    \/ \E k \in 1..Len(reqs) : reqs[k].pc = "rejected"
    \/ \A k \in 1..Len(reqs) : reqs[k].pc = "fulfilled"
allSettled(reqs) ==
    \A k \in 1..Len(reqs) : reqs[k].pc \in {"fulfilled", "rejected"}

\* no request yet; the handler at src/app/api/geo is the one of route.ts
PxIdle ==
    /\ pxHandler = "route"
    /\ pxCall = "idle"
    /\ pxReqs = <<>>
    /\ pxData = JNull

\* fetchNaturalEarthData up to its await: datasets.map calls fetchViaProxy for
\* each dataset in turn, and each call issues its request before it returns
PxDispatch ==
    /\ pxCall = "idle"
    /\ pxReqs = <<>>
    /\ pxReqs' = [i \in 1..Len(datasets) |-> Request(i, TRUE, datasets[i])]
    /\ pxCall' = "waiting"
    /\ UNCHANGED <<lvVars, pxHandler, pxData, clickVars, pjVars, gxVars, hzVars>>

\* a request reaches the proxy from outside the application
PxOutside(r) ==
    /\ pxCall = "idle"
    /\ pxReqs = <<>>
    /\ pxReqs' = <<Request(0, r.hasParam, r.dataset)>>
    /\ UNCHANGED <<lvVars, pxHandler, pxCall, pxData, clickVars, pjVars, gxVars, hzVars>>

\* the fetch of a request of the application rejects: the proxy is not reached
PxNetworkError(k) ==
    /\ k \in 1..Len(pxReqs)
    /\ pxReqs[k].pc = "sent"
    /\ pxReqs[k].layer # 0
    /\ pxReqs' = [pxReqs EXCEPT ![k].pc = "rejected"]
    /\ UNCHANGED <<lvVars, pxHandler, pxCall, pxData, clickVars, pjVars, gxVars, hzVars>>

\* the handler takes a request: it answers 400 or starts its upstream fetch
GET(k) ==
    /\ k \in 1..Len(pxReqs)
    /\ pxReqs[k].pc = "sent"
    /\ pxReqs' = [pxReqs EXCEPT ![k] = IF pxHandler = "route" THEN routeGET(@)
                                         ELSE allowlistGET(@)]
    /\ UNCHANGED <<lvVars, pxHandler, pxCall, pxData, clickVars, pjVars, gxVars, hzVars>>

\* the upstream fetch of the handler ends and the handler answers
PxUpstream(k, outcome) ==
    /\ k \in 1..Len(pxReqs)
    /\ pxReqs[k].pc = "upstream"
    /\ pxReqs' = [pxReqs EXCEPT ![k].pc = "responded",
                                ![k].status = upstreamStatus(outcome)]
    /\ UNCHANGED <<lvVars, pxHandler, pxCall, pxData, clickVars, pjVars, gxVars, hzVars>>

\* fetchViaProxy resumes with the response: a status that is not OK throws,
\* else the body is parsed and filtered
PxSettle(k) ==
    /\ k \in 1..Len(pxReqs)
    /\ pxReqs[k].pc = "responded"
    /\ pxReqs[k].layer # 0
    /\ pxReqs' = [pxReqs EXCEPT ![k].pc = IF pxReqs[k].status = 200
                                            THEN "fulfilled" ELSE "rejected"]
    /\ UNCHANGED <<lvVars, pxHandler, pxCall, pxData, clickVars, pjVars, gxVars, hzVars>>

\* Promise.allSettled resolves and fetchNaturalEarthData returns the data
PxComplete ==
    /\ pxCall = "waiting"
    /\ allSettled(pxReqs)
    /\ pxData' = geographicData([i \in Layers |-> promiseOf(pxReqs[i])])
    /\ pxCall' = "completed"
    /\ UNCHANGED <<lvVars, pxHandler, pxReqs, clickVars, pjVars, gxVars, hzVars>>

---------------------------------------------------------------------------
(* Specification of the proxy: one call of fetchNaturalEarthData, or one   *)
(* request from outside, served by either handler.                         *)

InitProxy ==
    /\ ClickInit /\ PjIdle /\ GxIdle /\ HzIdle /\ LvIdle
    /\ pxHandler \in Handlers
    /\ pxCall = "idle"
    /\ pxReqs = <<>>
    /\ pxData = JNull

NextProxy ==
    \/ PxDispatch
    \/ \E r \in OutsideRequests : PxOutside(r)
    \/ \E k \in 1..Len(datasets) : PxNetworkError(k)
    \/ \E k \in 1..Len(datasets) : GET(k)
    \/ \E k \in 1..Len(datasets), o \in UpstreamOutcomes : PxUpstream(k, o)
    \/ \E k \in 1..Len(datasets) : PxSettle(k)
    \/ PxComplete

SpecProxy == InitProxy /\ [][NextProxy]_vars

---------------------------------------------------------------------------
(* Specification of the geography: the journey is one the user has placed  *)
(* or none yet, and the stored path may load at any time.                  *)

InitGeo ==
    /\ geoAnchors \in {<<>>, <<Anchor(0, 0), Anchor(10, 10)>>}
    /\ isEraseMode = FALSE
    /\ hasLoaded = FALSE
    /\ PjIdle
    /\ GxIdle
    /\ HzIdle
    /\ PxIdle
    /\ LvIdle

NextGeo ==
    \/ ExportStart
    \/ \E i \in Layers, o \in Outcomes : FxSettle(i, o)
    \/ ExportResume
    \/ FilterDirect
    \/ LineDirect
    \/ \E j \in LoadedJourneys : LoadPath(j)
    \/ ShowPreview
    \/ PvEffect
    \/ \E k \in 1..MaxInvocations, o \in PreviewOutcomes : PvResolve(k, o)
    \/ PvClose

SpecGeo == InitGeo /\ [][NextGeo]_vars

----------------------------------------------------------------------------
(* Specification of the preview's loading: the preview is opened and       *)
(* closed, the stored path may load, and the effect and the fetches run.   *)
(* React runs an effect it has scheduled, and every fetch comes to an end: *)
(* its five requests settle.                                               *)

NextPreview ==
    \/ \E j \in LoadedJourneys : LoadPath(j)
    \/ ShowPreview
    \/ PvEffect
    \/ \E k \in 1..MaxInvocations, o \in PreviewOutcomes : PvResolve(k, o)
    \/ PvClose

\* the step PvEffect takes, told by what it does to the invocations: the
\* earlier ones of the instance are cancelled and one is added
EffectRuns ==
    /\ pvShown /\ pvEffectPending /\ Len(pvInv) < MaxInvocations
    /\ pvInv' = Append(Cancel(pvInv, pvInstance),
                       [instance |-> pvInstance, bbox |-> pvBBox,
                        cancelled |-> FALSE, settled |-> FALSE])

\* the step PvResolve(k, o) takes, for whatever outcomes o: invocation k settles
FetchSettles(k) ==
    /\ k \in 1..Len(pvInv)
    /\ ~pvInv[k].settled
    /\ pvInv' = [pvInv EXCEPT ![k].settled = TRUE]

SpecPreview ==
    /\ InitGeo
    /\ [][NextPreview]_vars
    /\ WF_pvInv(EffectRuns)
    /\ \A k \in 1..MaxInvocations : WF_pvInv(FetchSettles(k))

---------------------------------------------------------------------------
(* Specification of the projection *)

InitProj == ClickInit /\ PjIdle /\ GxIdle /\ HzIdle /\ PxIdle /\ LvIdle

NextProj ==
    \/ \E j \in LoadedJourneys : LoadPath(j)
    \/ \E b \in DirectBBox, c \in DirectCanvas : PjDirect(b, c)
    \/ PjExport
    \/ PjPreview
    \/ PjCalculate
    \/ \E p \in PjPoints : PjProject(p)

SpecProj == InitProj /\ [][NextProj]_vars

---------------------------------------------------------------------------
(* Specification of the journey path: anchors are placed and erased on the *)
(* map, the journey is cleared or loaded from the store, the flow is       *)
(* chosen, and the path is drawn on the live map, in the export and in the *)
(* preview.                                                                *)

InitPath == ClickInit /\ PjIdle /\ GxIdle /\ HzIdle /\ PxIdle /\ LvIdle

NextPath ==
    \/ \E b \in BOOLEAN : SetIsEraseMode(b)
    \/ \E a \in GridAnchors : HandleClickPlace(a)
    \/ HandleClickErase
    \/ ClearPath
    \/ \E data \in StoredPaths : LoadPath(data)
    \/ \E mode \in CurvatureModes : SetCurvatureMode(mode)
    \/ \E seed \in Seeds : MarkersEffect(seed)
    \/ \E seed \in Seeds : ExportPath(seed)
    \/ \E seed \in Seeds : PreviewPath(seed)

SpecPath == InitPath /\ [][NextPath]_vars

----------------------------------------------------------------------------
(* Specification of the map style: anchors are placed and erased, the      *)
(* journey is cleared, the flow and the map style are chosen; the paths    *)
(* table is empty when the page opens and no title is typed.               *)

MapStyles == {"minimal", "subtle"}

InitStyle == ClickInit /\ PjIdle /\ GxIdle /\ HzIdle /\ PxIdle /\ LvIdle

NextStyle ==
    \/ \E b \in BOOLEAN : SetIsEraseMode(b)
    \/ \E a \in GridAnchors : HandleClickPlace(a)
    \/ HandleClickErase
    \/ ClearPath
    \/ \E mode \in CurvatureModes : SetCurvatureMode(mode)
    \/ \E seed \in Seeds : MarkersEffect(seed)
    \/ \E style \in MapStyles : SetMapStyle(style)
    \/ StyleLoad
    \/ \E seed \in Seeds : StyleTimer(seed)

SpecStyle == InitStyle /\ [][NextStyle]_vars

----------------------------------------------------------------------------
(* Specification of the saving: a title is typed, anchors are placed and   *)
(* erased, the journey is cleared, and the save timers and the responses   *)
(* of the paths table come in any order the delays allow.  Every click     *)
(* lands on the same place and the random stream is the one of state 0:    *)
(* what is saved depends on neither.                                       *)

InitSave == ClickInit /\ PjIdle /\ GxIdle /\ HzIdle /\ PxIdle /\ LvIdle

NextSave ==
    \/ \E b \in BOOLEAN : SetIsEraseMode(b)
    \/ HandleClickPlace(Anchor(20, 10))
    \/ HandleClickErase
    \/ ClearPath
    \/ MarkersEffect(0)
    \/ \E newTitle \in TitleInputs : handleTitleChange(newTitle)
    \/ \E i \in 1..Len(saveTimers) : SaveTimer(i)
    \/ InsertResponse

SpecSave == InitSave /\ [][NextSave]_vars

---------------------------------------------------------------------------
(* Properties of the journey path *)

\* segment i of a concatenated path of 101 samples per segment
SegFirst(path, i) == path[101 * (i - 1) + 1]
SegLast(path, i) == path[101 * i]

\* a point of the live path lies exactly on anchor a
OnAnchor(pt, a) == ~pt.nan /\ pt.lng = 1000 * a.lng /\ pt.lat = 1000 * a.lat

\* a command of the drawn path lies exactly where geoToSVG puts anchor a
DrawnOnAnchor(cmd, a, projection) ==
    LET at == geoToSVG(N(a.lng), N(a.lat), projection)
    IN  cmd.x = at.x /\ cmd.y = at.y

\* the segments of the current journey whose two anchors differ
ProperSegments == {i \in 1..Len(geoAnchors) - 1 : geoAnchors[i] # geoAnchors[i + 1]}

\* the live path is the one drawn for the current journey
LiveDrawn == hzPc = "idle" /\ ~DrawPending /\ Len(geoAnchors) >= 2

\* C1: for two distinct anchors p0 and p2, any curvature preset and any random
\* draws, the segment the humanizer produces (on the live map, in the export
\* and in the preview) starts exactly at p0 and ends exactly at p2.
C1_EndpointsExact ==
    /\ LiveDrawn =>
          \A i \in ProperSegments :
              /\ OnAnchor(SegFirst(pathSource, i), geoAnchors[i])
              /\ OnAnchor(SegLast(pathSource, i), geoAnchors[i + 1])
    /\ hzPc = "exported" =>
          \A i \in ProperSegments :
              /\ DrawnOnAnchor(SegFirst(exFullPath, i), geoAnchors[i],
                               pageProjection(exportBBox(geoAnchors)))
              /\ DrawnOnAnchor(SegLast(exFullPath, i), geoAnchors[i + 1],
                               pageProjection(exportBBox(geoAnchors)))
    /\ hzPc = "previewed" =>
          \A i \in ProperSegments :
              /\ DrawnOnAnchor(SegFirst(pvFullPath, i), geoAnchors[i],
                               pageProjection(previewBBox(geoAnchors)))
              /\ DrawnOnAnchor(SegLast(pvFullPath, i), geoAnchors[i + 1],
                               pageProjection(previewBBox(geoAnchors)))

\* C2: in the concatenated path of a journey of three or more anchors (live
\* map, export and preview), the last point of segment i is identical to the
\* first point of segment i + 1, both being the shared anchor i + 1; stated for
\* journeys whose consecutive anchors differ.
C2_SegmentsContinuous ==
    (Len(geoAnchors) >= 3 /\ ProperSegments = 1..Len(geoAnchors) - 1) =>
        /\ LiveDrawn =>
              \A i \in 1..Len(geoAnchors) - 2 :
                  /\ SegLast(pathSource, i) = SegFirst(pathSource, i + 1)
                  /\ OnAnchor(SegLast(pathSource, i), geoAnchors[i + 1])
        /\ hzPc = "exported" =>
              \A i \in 1..Len(geoAnchors) - 2 :
                  /\ SegLast(exFullPath, i).x = SegFirst(exFullPath, i + 1).x
                  /\ SegLast(exFullPath, i).y = SegFirst(exFullPath, i + 1).y
                  /\ DrawnOnAnchor(SegLast(exFullPath, i), geoAnchors[i + 1],
                                   pageProjection(exportBBox(geoAnchors)))
        /\ hzPc = "previewed" =>
              \A i \in 1..Len(geoAnchors) - 2 :
                  /\ SegLast(pvFullPath, i).x = SegFirst(pvFullPath, i + 1).x
                  /\ SegLast(pvFullPath, i).y = SegFirst(pvFullPath, i + 1).y
                  /\ DrawnOnAnchor(SegLast(pvFullPath, i), geoAnchors[i + 1],
                                   pageProjection(previewBBox(geoAnchors)))

---------------------------------------------------------------------------
(* Properties of the projection *)

NonDegenerate(b) == Lt(b.minLng, b.maxLng) /\ Lt(b.minLat, b.maxLat)
CanvasFits(c) == Lt(Mul(c.margin, N(2)), c.w) /\ Lt(Mul(c.margin, N(2)), c.h)

\* the two per-axis candidate scales of the current run
CandX == Div(Sub(pjCanvas.w, Mul(pjCanvas.margin, N(2))), Sub(pjBBox.maxLng, pjBBox.minLng))
CandY == Div(Sub(pjCanvas.h, Mul(pjCanvas.margin, N(2))), Sub(pjBBox.maxLat, pjBBox.minLat))

\* C7: for a non-degenerate bbox and a canvas larger than twice the margin,
\* the scale calculateProjection returns is the smaller of the two per-axis
\* candidates availableWidth/geoWidth and availableHeight/geoHeight: it is one
\* of them and exceeds neither.
C7_ScaleIsMin ==
    (pjPc \in {"projected", "point"} /\ NonDegenerate(pjBBox) /\ CanvasFits(pjCanvas))
    => /\ Le(pjParams.scale, CandX)
       /\ Le(pjParams.scale, CandY)
       /\ pjParams.scale \in {CandX, CandY}

C7_Witness ==
    /\ pjPc = "projected"
    /\ NonDegenerate(pjBBox) /\ CanvasFits(pjCanvas)
    /\ Lt(CandY, CandX)
    /\ pjParams.scale = CandY

\* C8: for a non-degenerate bbox and a canvas larger than twice the margin,
\* projectToSVG maps every bbox corner, and every point inside the bbox, into
\* [margin, canvasWidth - margin] x [margin, canvasHeight - margin].
C8_CornersInCanvas ==
    (/\ pjPc = "point"
     /\ NonDegenerate(pjBBox) /\ CanvasFits(pjCanvas)
     /\ Le(pjBBox.minLng, pjPoint.lng) /\ Le(pjPoint.lng, pjBBox.maxLng)
     /\ Le(pjBBox.minLat, pjPoint.lat) /\ Le(pjPoint.lat, pjBBox.maxLat))
    => /\ Le(pjCanvas.margin, pjOut.x)
       /\ Le(pjOut.x, Sub(pjCanvas.w, pjCanvas.margin))
       /\ Le(pjCanvas.margin, pjOut.y)
       /\ Le(pjOut.y, Sub(pjCanvas.h, pjCanvas.margin))

C8_Witness ==
    /\ pjPc = "point"
    /\ pjCaller = "direct"
    /\ NonDegenerate(pjBBox) /\ CanvasFits(pjCanvas)
    /\ pjCanvas.margin = N(1)
    /\ pjPoint = [lng |-> pjBBox.maxLng, lat |-> pjBBox.minLat]
    /\ pjOut.x = Sub(pjCanvas.w, pjCanvas.margin)

\* C9: when all anchors share a longitude or a latitude the bbox / projection
\* computation of the export and of the preview is guarded, so that the
\* projection parameters are finite and every anchor projects to finite canvas
\* coordinates.
C9_DegenerateGuarded ==
    (pjPc = "point" /\ pjCaller \in {"export", "preview"})
    => /\ IsFinite(pjParams.scale)
       /\ IsFinite(pjParams.offsetX) /\ IsFinite(pjParams.offsetY)
       /\ IsFinite(pjOut.x) /\ IsFinite(pjOut.y)

---------------------------------------------------------------------------
(* Properties of the filter, the fetch, the serializer and the composition *)

\* the positions ([lng, lat] arrays) a coordinates value holds at any depth
RECURSIVE Positions(_)
Positions(c) ==
    IF c.t # "arr" THEN {}
    ELSE IF Len(c.e) > 0 /\ c.e[1].t = "num" THEN {c}
    ELSE UNION {Positions(c.e[i]) : i \in 1..Len(c.e)}

\* position p lies in bbox b widened by pad degrees on every side (closed box)
InBox(p, b, pad) ==
    /\ Len(p.e) >= 2
    /\ p.e[2].t = "num"
    /\ Le(Sub(b.minLng, N(pad)), ToNumber(p.e[1])) /\ Le(ToNumber(p.e[1]), Add(b.maxLng, N(pad)))
    /\ Le(Sub(b.minLat, N(pad)), ToNumber(p.e[2])) /\ Le(ToNumber(p.e[2]), Add(b.maxLat, N(pad)))

\* feature f has a geometry with a coordinate in b widened by pad
Touches(f, b, pad) ==
    /\ f.t = "obj"
    /\ f.geometry.t = "obj"
    /\ \E p \in Positions(f.geometry.coordinates) : InBox(p, b, pad)

\* the features of fs that touch b widened by pad, in the order of fs
Kept(fs, b, pad) ==
    LET Test(f) == Touches(f, b, pad) IN SelectSeq(fs, Test)

\* C6: filterByBBox keeps exactly the features with at least one coordinate in
\* the bbox expanded by 5 degrees on every side, drops the features whose
\* coordinates are all outside it or that have no geometry or no coordinates,
\* and returns the kept features unmodified in their original order.
C6_FilterByPaddedBBox ==
    gxPc = "filtered" => ftOut.features = Kept(ftIn.features.e, ftBBox, 5)

\* two features in, the second kept only because of the padding, the first dropped
C6_Witness ==
    /\ gxPc = "filtered"
    /\ Len(ftIn.features.e) = 2
    /\ ftOut.features = <<ftIn.features.e[2]>>
    /\ ~Touches(ftIn.features.e[2], ftBBox, 0)
    /\ ftIn.features.e[1].t = "obj"
    /\ ftIn.features.e[1].geometry.t = "obj"
    /\ Positions(ftIn.features.e[1].geometry.coordinates) # {}

\* the key of GeographicData that holds layer i
LayerOf(g, i) ==
    CASE i = 1 -> g.coastlines
      [] i = 2 -> g.rivers
      [] i = 3 -> g.lakes
      [] i = 4 -> g.land
      [] i = 5 -> g.borders

\* C4: fetchNaturalEarthData resolves with an object holding the five keys
\* coastlines, rivers, lakes, land and borders, each a FeatureCollection: for
\* every combination of per-layer outcomes and every order of settling, the key
\* of a failed layer holds the empty collection and the key of a successful
\* layer holds its own dataset filtered by the bbox.
C4_FetchAlwaysWellFormed ==
    gxPc = "done" =>
        /\ exGeoData.t = "obj"
        /\ \A i \in Layers :
              /\ fxOutcomes[i] \in {"failed", "ok"}
              /\ LayerOf(exGeoData, i).type = "FeatureCollection"
              /\ fxOutcomes[i] = "failed" => LayerOf(exGeoData, i) = EMPTY
              /\ fxOutcomes[i] = "ok" =>
                    LayerOf(exGeoData, i).features = Kept(Dataset(i), exBBox, 5)

\* a rejected request, a fulfilled one without features and two successful
\* ones with features of their own
C4_Witness ==
    /\ gxPc = "done"
    /\ fxResults[2].status = "rejected"
    /\ fxOutcomes[3] = "failed" /\ fxResults[3].status = "fulfilled"
    /\ fxOutcomes[1] = "ok" /\ Len(exGeoData.coastlines.features) > 0
    /\ fxOutcomes[5] = "ok" /\ Len(exGeoData.borders.features) > 0
    /\ exGeoData.coastlines # exGeoData.borders
    /\ exGeoData.rivers = EMPTY /\ exGeoData.lakes = EMPTY

HasKind(doc, k) == \E i \in 1..Len(doc) : doc[i].kind = k

\* the document has the fallback grid exactly when no layer has a feature, and
\* the group of a layer exactly when that layer has one
GridIffEmpty(doc, geoData) ==
    /\ HasKind(doc, "grid") <=> \A i \in Layers : Len(LayerOf(geoData, i).features) = 0
    /\ HasKind(doc, "land") <=> Len(geoData.land.features) > 0
    /\ HasKind(doc, "lakes") <=> Len(geoData.lakes.features) > 0
    /\ HasKind(doc, "rivers") <=> Len(geoData.rivers.features) > 0
    /\ HasKind(doc, "coastlines") <=> Len(geoData.coastlines.features) > 0
    /\ HasKind(doc, "borders") <=> Len(geoData.borders.features) > 0

\* C5: the composed document (the export, and the preview once loading has
\* finished) contains the fallback grid if and only if all five reference
\* layers have zero features, and contains the group of every layer that has
\* features.
C5_GridIffAllLayersEmpty ==
    /\ gxPc = "done" => GridIffEmpty(exDoc, exGeoData)
    /\ (pvShown /\ ~pvIsLoadingGeo /\ pvDoc # RenderError)
          => GridIffEmpty(pvDoc, pvGeoData)

\* the export with the borders alone non-empty and the other four requests
\* failed: the borders are drawn and the grid is not
C5_Witness ==
    /\ gxPc = "done"
    /\ \A i \in 1..4 : fxOutcomes[i] = "failed"
    /\ fxOutcomes[5] = "ok"
    /\ ~HasKind(exDoc, "grid")
    /\ \E i \in 1..Len(exDoc) : exDoc[i].kind = "borders" /\ Len(exDoc[i].items) > 0

\* a coordinate lineToPath does not skip
InRange(c) == ~OutOfRange(At(c, 0), 180) /\ ~OutOfRange(At(c, 1), 90)

\* C3: a line with exactly one out-of-range coordinate, in its interior,
\* serializes to two subpaths: the first valid coordinate after the gap is
\* written with 'M', so the string has two 'M' commands and no 'L' across the gap.
C3_GapStartsNewSubpath ==
    (/\ gxPc = "lined"
     /\ Len(lnIn.e) >= 3
     /\ InRange(lnIn.e[1]) /\ InRange(lnIn.e[Len(lnIn.e)])
     /\ Cardinality({i \in 1..Len(lnIn.e) : ~InRange(lnIn.e[i])}) = 1)
    => LET k == CHOOSE i \in 1..Len(lnIn.e) : ~InRange(lnIn.e[i])
       IN  /\ Len(lnOut) = Len(lnIn.e) - 1
           /\ lnOut[k].op = "M"
           /\ Cardinality({i \in 1..Len(lnOut) : lnOut[i].op = "M"}) = 2

\* C10: in the preview the reference data shown comes from the latest
\* invocation of load(): whenever the preview is open and not loading, the
\* invocation that wrote geoData and isLoadingGeo is the last one started, it
\* belongs to the mounted component and its effect has not been cleaned up; an
\* invocation whose effect was cleaned up never delivers.
C10_OnlyCurrentDelivers ==
    (pvShown /\ ~pvIsLoadingGeo)
    => /\ pvWriter = Len(pvInv)
       /\ pvWriter > 0
       /\ pvInv[pvWriter].instance = pvInstance
       /\ ~pvInv[pvWriter].cancelled
       /\ pvInv[pvWriter].settled

\* an older fetch of the open preview arrived after its effect was cleaned
\* up, while the newer one is still in flight: nothing was delivered
C10_Witness ==
    /\ pvShown
    /\ Len(pvInv) >= 2
    /\ pvInv[Len(pvInv)].instance = pvInstance
    /\ ~pvInv[Len(pvInv)].settled
    /\ pvInv[Len(pvInv) - 1].instance = pvInstance
    /\ pvInv[Len(pvInv) - 1].cancelled
    /\ pvInv[Len(pvInv) - 1].settled
    /\ pvInv[Len(pvInv) - 1].bbox # pvBBox
    /\ pvWriter = 0
    /\ pvIsLoadingGeo

---------------------------------------------------------------------------
(* Properties of the proxy and of the requests made to it *)

\* C11: a request whose dataset parameter is missing, or names a dataset that
\* is not on the allow-list, is answered with status 400 and the handler
\* fetches nothing upstream for it.
C11_DisallowedRejected ==
    \A k \in 1..Len(pxReqs) :
        (/\ pxReqs[k].pc # "sent"
         /\ NoDataset(pxReqs[k]) \/ pxReqs[k].dataset \notin ALLOWED_DATASETS)
        => /\ pxReqs[k].status = 400
           /\ pxReqs[k].upstream = <<>>

\* a request of fetchNaturalEarthData that has settled
Settled(req) == req.pc \in {"fulfilled", "rejected"}

\* C20: one call of fetchNaturalEarthData has exactly five requests, one per
\* layer in the order of datasets, all of them issued before any is answered
\* or settles; no request is issued again; the call completes only when all
\* five have settled, it can complete as soon as they have, and a failed
\* request leaves the others to settle on their own outcome.
C20_FiveRequestsNoRetry ==
    /\ pxCall = "idle" => \A k \in 1..Len(pxReqs) : pxReqs[k].layer = 0
    /\ pxCall # "idle" =>
        /\ Len(pxReqs) = 5
        /\ \A i \in 1..Len(pxReqs) :
              /\ pxReqs[i].layer = i
              /\ pxReqs[i].dataset = datasets[i]
              /\ Len(pxReqs[i].upstream) <= 1
        /\ pxCall = "completed" =>
              /\ \A i \in 1..Len(pxReqs) : Settled(pxReqs[i])
              /\ \A i \in 1..Len(pxReqs) :
                    pxReqs[i].status = 200 <=> pxReqs[i].pc = "fulfilled"
              /\ \A i \in 1..Len(pxReqs) :
                    pxReqs[i].pc = "fulfilled" =>
                        get([j \in Layers |-> promiseOf(pxReqs[j])], i - 1)
                            = filterByBBox(Body(i, "ok"), PxBBox).value
        /\ (pxCall = "waiting" /\ \A i \in 1..Len(pxReqs) : Settled(pxReqs[i]))
              => ENABLED PxComplete

C20_Witness ==
    /\ pxCall = "completed"
    /\ pxReqs[1].pc = "rejected" /\ pxReqs[1].status = 500
    /\ pxReqs[2].pc = "rejected" /\ pxReqs[2].status = 0
    /\ \A i \in 3..5 : pxReqs[i].pc = "fulfilled"
    /\ Len(pxData.land.features) > 0

---------------------------------------------------------------------------
(* Properties of the composed document *)

\* the draw elements of a document, back to front
DrawOrder ==
    <<"land", "lakes", "rivers", "coastlines", "borders", "grid", "path",
      "markers", "title", "route", "year", "footer", "frame">>

Rank(kind) == CHOOSE i \in 1..Len(DrawOrder) : DrawOrder[i] = kind

\* the kinds of the document's elements that are draw elements, in its order
RECURSIVE DrawKinds(_)
DrawKinds(doc) ==
    IF Len(doc) = 0 THEN <<>>
    ELSE (IF \E i \in 1..Len(DrawOrder) : DrawOrder[i] = doc[1].kind
          THEN <<doc[1].kind>> ELSE <<>>) \o DrawKinds(Tail(doc))

\* the draw elements follow DrawOrder, none twice, and the seven elements from
\* the journey path to the frame are all there
InDrawOrder(doc) ==
    LET kinds == DrawKinds(doc)
    IN  /\ \A i \in 1..Len(kinds) - 1 : Rank(kinds[i]) < Rank(kinds[i + 1])
        /\ Len(kinds) >= 7
        /\ SubSeq(kinds, Len(kinds) - 6, Len(kinds)) = SubSeq(DrawOrder, 7, 13)

\* a document of the preview is on screen
PreviewDrawn == pvShown /\ pvDoc # RenderError

\* C12: in every composed document, of the export and of the preview, the draw
\* elements appear in the order land, lakes, rivers, coastlines, borders,
\* fallback grid, journey path, anchor markers, title, route label, year,
\* footer caption, frame; an empty layer is left out and the others keep
\* their order.
C12_FixedDrawOrder ==
    /\ gxPc = "done" => InDrawOrder(exDoc)
    /\ PreviewDrawn => InDrawOrder(pvDoc)

\* an export where some layers are drawn and others are left out
C12_Witness ==
    /\ gxPc = "done"
    /\ DrawKinds(exDoc) = <<"land", "coastlines">> \o SubSeq(DrawOrder, 7, 13)

\* the element of a kind in a document that has one
ElementOf(doc, kind) == doc[CHOOSE i \in 1..Len(doc) : doc[i].kind = kind]

\* the markers of a document: one circle per anchor, in anchor order, at the
\* anchor's place on the page, filled for the first and the last anchor and
\* stroked without a fill for the others
MarkersOf(doc, anchors, projection) ==
    LET circles == ElementOf(doc, "markers").items
    IN  /\ Len(circles) = Len(anchors)
        /\ \A i \in 1..Len(anchors) :
              /\ circles[i].cx = geoToSVG(N(anchors[i].lng), N(anchors[i].lat),
                                          projection).x
              /\ circles[i].cy = geoToSVG(N(anchors[i].lng), N(anchors[i].lat),
                                          projection).y
              /\ (i = 1 \/ i = Len(anchors))
                    => circles[i].fill # "none" /\ circles[i].stroke = ""
              /\ (i # 1 /\ i # Len(anchors))
                    => circles[i].fill = "none" /\ circles[i].stroke # ""

\* C13: for a journey of N >= 2 anchors the export and the preview draw
\* exactly N circles, one per anchor in anchor order at the anchor's projected
\* position; the first and the last are filled, every other one is stroke-only.
C13_MarkersPerAnchor ==
    /\ gxPc = "done" => MarkersOf(exDoc, geoAnchors, exProjection)
    /\ PreviewDrawn => MarkersOf(pvDoc, geoAnchors, pageProjection(pvBBox))

\* a preview of a journey of three anchors
C13_Witness ==
    /\ PreviewDrawn
    /\ Len(geoAnchors) = 3
    /\ ElementOf(pvDoc, "markers").items[2].fill = "none"
    /\ ElementOf(pvDoc, "markers").items[3].fill # "none"

\* the paths a layer is drawn with when each malformed feature is skipped on
\* its own: those of its other features, in order
RECURSIVE SiblingPaths(_, _)
SiblingPaths(features, projection) ==
    IF Len(features) = 0 THEN <<>>
    ELSE (IF geoJSONToSVGPathThrows(features[1]) THEN <<>>
          ELSE IF Len(geoJSONToSVGPath(features[1], projection)) = 0 THEN <<>>
          ELSE <<geoJSONToSVGPath(features[1], projection)>>)
         \o SiblingPaths(Tail(features), projection)

\* the kind of the group layer i is drawn as
KindOf(i) ==
    CASE i = 1 -> "coastlines" [] i = 2 -> "rivers" [] i = 3 -> "lakes"
      [] i = 4 -> "land" [] i = 5 -> "borders"

\* the document is complete: every layer that has features is drawn with the
\* paths of its well-formed features, and the elements up to the frame follow
SerializedAround(doc, geoData, projection) ==
    /\ \A i \in Layers :
          Len(LayerOf(geoData, i).features) > 0
          => /\ HasKind(doc, KindOf(i))
             /\ ElementOf(doc, KindOf(i)).items
                    = SiblingPaths(LayerOf(geoData, i).features, projection)
    /\ HasKind(doc, "path") /\ HasKind(doc, "markers") /\ HasKind(doc, "frame")

\* C15: a feature that passed the filter and whose geometry is malformed is
\* skipped on its own: the export, and the preview once the data is there,
\* still draw its sibling features, the other layers and the rest of the
\* document.
C15_MalformedSkippedAlone ==
    /\ gxPc = "done" => SerializedAround(exDoc, exGeoData, exProjection)
    /\ (pvShown /\ ~pvIsLoadingGeo)
          => /\ pvDoc # RenderError
             /\ SerializedAround(pvDoc, pvGeoData, pageProjection(pvBBox))

\* the export alone: a malformed river is left out and the other river paths,
\* the other layers and the foreground are drawn
C15_ExportPart ==
    gxPc = "done" => SerializedAround(exDoc, exGeoData, exProjection)

---------------------------------------------------------------------------
(* Properties of the serializer *)

\* a coordinate of integer degrees with |lng| <= 180 and |lat| <= 90
ValidLngLat(c) ==
    /\ c.e[1].v >= -180 /\ c.e[1].v <= 180
    /\ c.e[2].v >= -90 /\ c.e[2].v <= 90

\* the coordinates of a line that are valid, in the order of the line
RECURSIVE ValidCoords(_)
ValidCoords(cs) ==
    IF Len(cs) = 0 THEN <<>>
    ELSE (IF ValidLngLat(cs[1]) THEN <<cs[1]>> ELSE <<>>) \o ValidCoords(Tail(cs))

\* C17: lineToPath projects and emits exactly the coordinates with
\* |lng| <= 180 and |lat| <= 90: its output has one drawing command per such
\* coordinate, in input order, each at the projection of its coordinate, and
\* is the empty string when the line has none.
C17_OnlyValidCoordsEmitted ==
    gxPc = "lined" =>
        LET valid == ValidCoords(lnIn.e)
        IN  /\ Len(lnOut) = Len(valid)
            /\ \A i \in 1..Len(valid) :
                  LET p == projectToSVG(N(valid[i].e[1].v), N(valid[i].e[2].v),
                                        LineProjection)
                  IN  /\ lnOut[i].op \in {"M", "L"}
                      /\ lnOut[i].x = toFixed2(p.x)
                      /\ lnOut[i].y = toFixed2(p.y)

\* a line with an invalid longitude, a valid coordinate and an invalid
\* latitude: one command
C17_Witness ==
    /\ gxPc = "lined"
    /\ lnIn.e = <<Pt(200, 0), Pt(8, 7), Pt(5, 95)>>
    /\ Len(lnOut) = 1


---------------------------------------------------------------------------
(* Properties of the two-anchor threshold *)

---------------------------------------------------------------------------
(* Properties of the page layout *)

\* a drawing command lies in the central map area of the page
InMapArea(cmd) ==
    /\ Le(N(margin), cmd.x)
    /\ Le(cmd.x, N(printWidthMM - margin))
    /\ Le(N(margin + titleAreaHeight), cmd.y)
    /\ Le(cmd.y, N(printHeightMM - margin - footerHeight))

\* the journey has a non-degenerate bbox and no two successive anchors are
\* the same place
ProperJourney ==
    /\ Len(geoAnchors) >= 2
    /\ NonDegenerate(exportBBox(geoAnchors))
    /\ ProperSegments = 1..Len(geoAnchors) - 1

\* C16: for any journey of at least two anchors with a non-degenerate bbox,
\* any curvature preset and any random draws, every point of the projected
\* journey path (all 101 samples of every segment), in the export and in the
\* preview, lies inside the central map area: x in [margin, pageWidth -
\* margin] and y in [margin + titleAreaHeight, pageHeight - margin -
\* footerHeight].
C16_PathInsideMapArea ==
    /\ hzPc = "exported" /\ ProperJourney =>
          \A i \in 1..Len(exFullPath) : InMapArea(exFullPath[i])
    /\ hzPc = "previewed" /\ ProperJourney =>
          \A i \in 1..Len(pvFullPath) : InMapArea(pvFullPath[i])

---------------------------------------------------------------------------
(* Properties of the path string *)

\* the commands of path are those of n subpaths, each one M and 100 L
Subpaths(path, n) ==
    /\ Len(path) = 101 * n
    /\ \A i \in 1..Len(path) :
          path[i].op = IF (i - 1) % 101 = 0 THEN "M" ELSE "L"

\* C18: for a journey of N >= 2 anchors the journey path string of the export
\* and of the preview is non-empty, begins with M, and consists of exactly
\* N - 1 subpaths, each one M followed by 100 L commands (101 sampled points
\* per segment), hence at least 100 drawing commands.
C18_SubpathPerSegment ==
    /\ hzPc = "exported" =>
          /\ Len(geoAnchors) >= 2
          /\ exFullPath # <<>>
          /\ exFullPath[1].op = "M"
          /\ Subpaths(exFullPath, Len(geoAnchors) - 1)
          /\ Len(exFullPath) >= 100
    /\ hzPc = "previewed" =>
          /\ Len(geoAnchors) >= 2
          /\ pvFullPath # <<>>
          /\ pvFullPath[1].op = "M"
          /\ Subpaths(pvFullPath, Len(geoAnchors) - 1)
          /\ Len(pvFullPath) >= 100

\* the export of a journey of three anchors: two subpaths
C18_Witness ==
    /\ hzPc = "exported"
    /\ Len(geoAnchors) = 3
    /\ Len(exFullPath) = 202
    /\ exFullPath[102].op = "M"

---------------------------------------------------------------------------
(* Properties of the three humanizers *)

\* where geoToSVG puts a point of the live path
Drawn(pt, projection) ==
    IF pt.nan THEN geoToSVG(NaN, NaN, projection)
    ELSE geoToSVG(Norm(pt.lng, 1000), Norm(pt.lat, 1000), projection)

\* where the projection of a journey's bbox puts the 101 points that
\* generateHumanizedPath gives for a segment of the journey
liveProjected ==
    Table([r \in ExportRuns \cup PreviewRuns, mode \in CurvatureModes, seed \in Seeds |->
              LET points == drawnSegment[<<r[1], r[2], r[3]>>, mode, seed]
                  projection == pageProjection(r[4])
              IN  [j \in 1..Len(points) |-> Drawn(points[j], projection)]])

\* the commands of path go, segment by segment and one by one, to where the
\* projection of bbox puts the points of the live overlay
SamePoints(path, anchors, bbox, mode, seed) ==
    /\ Len(path) = 101 * (Len(anchors) - 1)
    /\ \A i \in 1..Len(anchors) - 1 :
          LET at == liveProjected[<<anchors[i], anchors[i + 1], 9 * (i - 1), bbox>>,
                                  mode, seed]
          IN  \A j \in 1..101 :
                  /\ path[101 * (i - 1) + j].x = at[j].x
                  /\ path[101 * (i - 1) + j].y = at[j].y

\* C19: the three humanizers (generateHumanizedPath of the live overlay,
\* generatePathSegment of the export and of the preview) are the same
\* function: for the same anchors, the same preset name and the same stream
\* of random draws, the path of the export and the path of the preview are
\* the projection of the 101 points per segment of the live overlay, and the
\* two preset tables give the same number for calm, balanced and tension.
C19_SameHumanizer ==
    /\ \A mode \in CurvatureModes : previewCURVATURE(mode) = CURVATURE(mode)
    /\ hzPc = "exported" =>
          \E seed \in Seeds :
              SamePoints(exFullPath, geoAnchors, exportBBox(geoAnchors),
                         curvatureMode, seed)
    /\ hzPc = "previewed" =>
          \E seed \in Seeds :
              SamePoints(pvFullPath, geoAnchors, previewBBox(geoAnchors),
                         curvatureMode, seed)

\* a preview in the tension flow of a journey with a curved, finite path
C19_Witness ==
    /\ hzPc = "previewed"
    /\ curvatureMode = "tension"
    /\ ProperJourney
    /\ \E i \in 1..Len(pvFullPath) : pvFullPath[i].x # pvFullPath[1].x
    /\ pvFullPath # previewedPath[geoAnchors, "calm", 0]

---------------------------------------------------------------------------
(* Properties of projectToSVG *)

---------------------------------------------------------------------------
(* Properties of the smoothing *)

\* the noisy samples of every call of the humanizer of the live overlay and
\* of the preview
liveNoisy ==
    Table([r \in LiveRuns, mode \in CurvatureModes, seed \in Seeds |->
              liveHumanizedPoints(r[1], r[2], CURVATURE(mode), seed, r[3])])

previewNoisy ==
    Table([r \in LiveRuns, mode \in CurvatureModes, seed \in Seeds |->
              previewHumanizedPoints(r[1], r[2], previewCURVATURE(mode), seed, r[3])])

\* v is the mean of the five numbers, to the nearest unit
MeanOfFive(v, a, b, c, d, e) == Abs(5 * v - (a + b + c + d + e)) <= 2

\* out is noisy smoothed: 101 points, the points of index 0, 1, 99 and 100
\* the noisy samples themselves, every other one the mean of the samples of
\* index i - 2 .. i + 2 (which is NaN when one of them is)
Smoothing(out, noisy) ==
    /\ Len(out) = 101
    /\ Len(noisy) = 101
    /\ \A j \in {1, 2, 100, 101} : out[j] = noisy[j]
    /\ \A j \in 3..99 :
          IF \E w \in -2..2 : noisy[j + w].nan THEN out[j].nan
          ELSE /\ ~out[j].nan
               /\ MeanOfFive(out[j].lng, noisy[j - 2].lng, noisy[j - 1].lng, noisy[j].lng,
                             noisy[j + 1].lng, noisy[j + 2].lng)
               /\ MeanOfFive(out[j].lat, noisy[j - 2].lat, noisy[j - 1].lat, noisy[j].lat,
                             noisy[j + 1].lat, noisy[j + 2].lat)

\* the call of the humanizer for segment i of the current journey
SegmentRun(i) == <<geoAnchors[i], geoAnchors[i + 1], 9 * (i - 1)>>

\* C22: the smoothing step of the humanizer outputs exactly 101 points: each
\* point of index 2..98 is the arithmetic mean of the five noisy samples of
\* index i - 2 .. i + 2, and the points of index 0, 1, 99 and 100 are the
\* noisy samples passed through unchanged; on the live map for the path
\* drawn, in the preview for every segment of the journey previewed.
C22_SmoothingWindow ==
    /\ LiveDrawn =>
          \E seed \in Seeds :
              /\ Len(pathSource) = 101 * (Len(geoAnchors) - 1)
              /\ \A i \in 1..Len(geoAnchors) - 1 :
                    Smoothing(SubSeq(pathSource, 101 * (i - 1) + 1, 101 * i),
                              liveNoisy[SegmentRun(i), curvatureMode, seed])
    /\ hzPc = "previewed" =>
          \A seed \in Seeds :
              \A i \in 1..Len(geoAnchors) - 1 :
                  Smoothing(previewSmoothed(previewNoisy[SegmentRun(i), curvatureMode, seed]),
                            previewNoisy[SegmentRun(i), curvatureMode, seed])

\* a path was drawn whose smoothing moved an interior point
C22_Witness ==
    /\ LiveDrawn
    /\ ProperJourney
    /\ \E seed \in Seeds :
          /\ pathSource = drawnPath[geoAnchors, curvatureMode, seed]
          /\ \E j \in 3..99 :
                pathSource[j] # liveNoisy[SegmentRun(1), curvatureMode, seed][j]

---------------------------------------------------------------------------
(* Properties of the control point *)

\* the random quantities of a control point are in the ranges: the variation
\* factor in [0.8, 1.0], the lateral jitter within 1.5 % of the chord, the
\* shift along the chord within 5 %
InRanges(p1) ==
    /\ p1.curveVariation >= 800
    /\ p1.curveVariation <= 1000
    /\ Abs(p1.randomPerpOffset) * 1000 <= 15 * p1.distance
    /\ Abs(p1.asymmetry) <= 50

\* C23: for every random draw the Bezier control point is displaced from the
\* chord midpoint along the unit perpendicular by d * curvature * v + j, with
\* the variation factor v in [0.8, 1.0] and the lateral jitter |j| <= 1.5 % of
\* d, and along the chord by a * (p2 - p0) with |a| <= 5 %; on the live map
\* and in the preview, for every segment between two anchors that differ.
C23_ControlPointRanges ==
    /\ LiveDrawn =>
          \A seed \in Seeds : \A i \in ProperSegments :
              InRanges(controlPoint(geoAnchors[i], geoAnchors[i + 1],
                                    CURVATURE(curvatureMode), seed, 9 * (i - 1)))
    /\ hzPc = "previewed" =>
          \A seed \in Seeds : \A i \in ProperSegments :
              InRanges(previewControlPoint(geoAnchors[i], geoAnchors[i + 1],
                                           previewCURVATURE(curvatureMode), seed,
                                           9 * (i - 1)))

----------------------------------------------------------------------------
(* Properties of the coordinate discriminator *)

\* a 2-element numeric array
IsPair(c) == c.t = "arr" /\ Len(c.e) = 2 /\ c.e[1].t = "num" /\ c.e[2].t = "num"

\* the match of a discriminator that takes exactly the 2-element numeric arrays
\* for coordinate pairs and every other array for a further nesting level
RECURSIVE PairMatches(_, _)
PairMatches(c, box) ==
    IF c.t # "arr" THEN FALSE
    ELSE IF IsPair(c)
    THEN /\ Le(box.minLng, N(c.e[1].v)) /\ Le(N(c.e[1].v), box.maxLng)
         /\ Le(box.minLat, N(c.e[2].v)) /\ Le(N(c.e[2].v), box.maxLat)
    ELSE \E i \in 1..Len(c.e) : PairMatches(c.e[i], box)

\* C24: coordsInBBox takes an array for a coordinate pair exactly when it is a
\* 2-element numeric array and tests it against the box; every other array is a
\* further nesting level of which any element may match, at every depth; an
\* empty array or a non-array never matches.  Seen through the filter: the
\* features kept are those whose coordinates match under that discriminator.
C24_PairDiscriminator ==
    gxPc = "filtered"
    => LET Test(f) == /\ f.t = "obj"
                      /\ f.geometry.t = "obj"
                      /\ PairMatches(f.geometry.coordinates, expanded(ftBBox))
       IN  ftOut.features = SelectSeq(ftIn.features.e, Test)

----------------------------------------------------------------------------
(* Properties of the path layer of the live map *)

\* no effect, style load or timer is waiting to run
LiveSettled == hzPc = "idle" /\ ~DrawPending /\ stylePc = "idle" /\ saveTimers = <<>>

\* the path layer holds a path drawPathOnMap builds from the anchors
BuiltFrom(anchors) ==
    \E mode \in CurvatureModes, seed \in Seeds :
        pathSource = drawnPathOf(anchors, mode, seed)

\* C25: after any sequence of place clicks, undo clicks, clear, curvature
\* changes and map-style changes, once every pending effect, timer and
\* style-load callback has run, the path layer exists if and only if the
\* current anchor list has at least 2 anchors, and when it exists it was built
\* from the current anchor list.
C25_LayerFollowsAnchors ==
    LiveSettled
    => /\ pathSource # <<>> <=> Len(geoAnchors) >= 2
       /\ pathSource # <<>> => BuiltFrom(geoAnchors)

----------------------------------------------------------------------------
(* Properties of the saving *)

\* C26: with a non-empty title, when the save a place or undo click has
\* scheduled runs, the request savePath sends carries the anchor list shown at
\* that moment, the current title and the current path id, not the values of an
\* earlier render.
C26_SaveWritesShown ==
    [][\A i \in 1..Len(saveTimers) :
          (SaveTimer(i) /\ saveTimers[i].from = "click" /\ trim(title) # <<>>)
          => /\ svRequest'.points = geoAnchors
             /\ svRequest'.title = title
             /\ currentPathId # 0
                   => svRequest'.op = "update" /\ svRequest'.id = currentPathId]_vars

\* C27: between two clears savePath inserts at most one row.
C27_OneInsertPerPath == rowCount - clearedAt <= 1

----------------------------------------------------------------------------
(* Properties of the degenerate segment *)

\* the segments of the current journey whose two anchors are the same place
DegenerateSegments == {i \in 1..Len(geoAnchors) - 1 : geoAnchors[i] = geoAnchors[i + 1]}

\* the indices of the 101 points of segment i in a concatenated path
PointsOf(i) == (101 * (i - 1) + 1)..(101 * i)

\* C28: for two consecutive anchors with identical coordinates (chord length
\* 0) the humanizer divides by nothing that is zero: each of the 101 points of
\* the segment has finite coordinates, all equal to the anchor, on the live
\* map, in the export and in the preview.
C28_DegenerateSegmentFinite ==
    /\ LiveDrawn =>
          \A i \in DegenerateSegments : \A k \in PointsOf(i) :
              OnAnchor(pathSource[k], geoAnchors[i])
    /\ hzPc = "exported" =>
          \A i \in DegenerateSegments : \A k \in PointsOf(i) :
              /\ IsFinite(exFullPath[k].x) /\ IsFinite(exFullPath[k].y)
              /\ DrawnOnAnchor(exFullPath[k], geoAnchors[i],
                               pageProjection(exportBBox(geoAnchors)))
    /\ hzPc = "previewed" =>
          \A i \in DegenerateSegments : \A k \in PointsOf(i) :
              /\ IsFinite(pvFullPath[k].x) /\ IsFinite(pvFullPath[k].y)
              /\ DrawnOnAnchor(pvFullPath[k], geoAnchors[i],
                               pageProjection(previewBBox(geoAnchors)))

----------------------------------------------------------------------------
(* Properties of the preview's loading *)

\* the geography of a document: its reference layers and its grid
GeographyOf(doc) ==
    {i \in 1..Len(doc) :
        doc[i].kind \in {"land", "lakes", "rivers", "coastlines", "borders", "grid"}}

\* the load() of the mounted preview is under way: its effect has run for the
\* bbox on screen
LoadRunning == pvShown /\ pvIsLoadingGeo /\ ~pvEffectPending

\* C29: in the preview, when every request of the current invocation settles,
\* the loading ends (isLoadingGeo becomes false, unless the preview is closed
\* or the bbox changes first) and isLoadingGeo stays false until the bbox
\* changes; while isLoadingGeo is true neither reference layers nor the grid
\* are rendered.
C29_LoadingEnds ==
    /\ LoadRunning ~> (~pvShown \/ ~pvIsLoadingGeo \/ pvEffectPending)
    /\ [][(pvShown /\ ~pvIsLoadingGeo /\ ~pvEffectPending /\ pvShown' /\ pvBBox' = pvBBox)
          => ~pvIsLoadingGeo']_vars
    /\ []((pvShown /\ pvIsLoadingGeo) => GeographyOf(pvDoc) = {})

\* the loading of a preview has ended with layers on screen, after the load() of
\* an earlier bbox was cancelled
C29_Witness ==
    /\ pvShown
    /\ ~pvIsLoadingGeo
    /\ ~pvEffectPending
    /\ pvWriter # 0
    /\ \E k \in 1..Len(pvInv) : pvInv[k].instance = pvInstance /\ pvInv[k].cancelled
    /\ GeographyOf(pvDoc) # {}

----------------------------------------------------------------------------
(* Properties of the texts of the export *)

\* the entity references of XML
Entities ==
    {<<"&", "a", "m", "p", ";">>, <<"&", "l", "t", ";">>, <<"&", "g", "t", ";">>,
     <<"&", "q", "u", "o", "t", ";">>, <<"&", "a", "p", "o", "s", ";">>}

\* text holds no character with a meaning in markup: no <, no >, no quote, and
\* no & but the one an entity reference begins with
Escaped(text) ==
    \A i \in 1..Len(text) :
        /\ text[i] \notin {"<", ">", "\"", "'"}
        /\ text[i] = "&"
              => \E e \in Entities :
                    /\ i + Len(e) - 1 <= Len(text)
                    /\ SubSeq(text, i, i + Len(e) - 1) = e

\* C30: the exported document is well-formed for every title, origin and
\* destination the user has entered: the characters with a meaning in markup
\* (<, >, &, quotes) are escaped or removed before the texts are put into the
\* text elements of the document.
C30_TextsEscaped ==
    gxPc = "done"
    => /\ Escaped(ElementOf(exDoc, "title").items)
       /\ Escaped(ElementOf(exDoc, "route").items)

====
